---- MODULE Spec2Model ----
(***************************************************************************)
(* Model of the dgrants frontend cart store (app/src/store/cart.ts):       *)
(* the cart and its localStorage mirror, the checkout run, the donation    *)
(* ratio fix-up and the token value converter; and of the grant round      *)
(* getters (app/src/utils/data/grantRounds.ts) with the storage entries    *)
(* they read and write, the prediction run and the per-round summaries.    *)
(*                                                                         *)
(* Numbers.  ethers BigNumber values are unbounded integers; they are      *)
(* modelled by TLC integers, so the fixed-point whole WAD (10^18 in the    *)
(* source) and the token decimals (18) are scaled down to keep every       *)
(* product below 2^31.  Cart amounts are whole numbers, for which the      *)
(* JavaScript additions of cartSummary and String()/parseUnits are exact;  *)
(* fractional amounts, which those additions round, are not modelled.      *)
(***************************************************************************)
EXTENDS Integers, Sequences, FiniteSets, TLC

\* ------------------------------------------------------------------------
\* Bounds
\* ------------------------------------------------------------------------
NumGrants == 2        \* grant ids are 1..NumGrants
MaxAmount == 1        \* amounts typed by the user are 0..MaxAmount
MaxStored == 2        \* longest array found under localStorage key 'cart'
MaxDonations == 3     \* longest list handed to fixDonationRoundingErrors
MaxEdits == 1         \* cart edits made while one checkout run awaits its quotes
MaxThrows == 2        \* cart method calls that end in a throw

\* ------------------------------------------------------------------------
\* Program constants
\* ------------------------------------------------------------------------
WAD == 1000000                      \* 100%; 10^18 in the source, scaled
TOKEN_DECIMALS == 2                 \* decimals of DAI and ETH; 18 in the source, scaled
DEFAULT_CONTRIBUTION_AMOUNT == 5
EMPTY_CART == << >>

DAI_ADDRESS == "DAI"
ETH_ADDRESS == "ETH"
WETH_ADDRESS == "WETH"
GTC_ADDRESS == "GTC"
UNSUPPORTED_ADDRESS == "BAD"        \* a well-formed address that is no supported token

SUPPORTED_TOKENS == {DAI_ADDRESS, ETH_ADDRESS, GTC_ADDRESS}
\* the tokens picked where carts are edited; carts with GTC are checked out in SpecCheckout
CartTokens == {DAI_ADDRESS, ETH_ADDRESS}

Grants == 1..NumGrants
Amounts == (0..MaxAmount) \cup {DEFAULT_CONTRIBUTION_AMOUNT}
Undefined == [kind |-> "undefined"]   \* the value `undefined` of an object or a rate
UndefinedId == 0                      \* the value `undefined` passed as a grantId

\* ------------------------------------------------------------------------
\* State
\* ------------------------------------------------------------------------
VARIABLES
    cart,              \* ref cart: CartItem[]
    lsCart,            \* ref lsCart: CartItemOptions[]
    localStorage,      \* what localStorage holds under CART_KEY
    cartStatus,        \* ref cartStatus: "" or `k of n pending`
    lastOp,            \* the cart operation that ran last, and whether it threw
    throws,            \* how many cart method calls have thrown
    quotes,            \* ref quotes: token address -> rate, or Undefined
    conv,              \* the last getConvertedAmount call and its outcome
    fixIn,             \* argument of fixDonationRoundingErrors (pure-function harness)
    fixOut,            \* its outcome
    fixTwice,          \* the outcome of applying it to its own output
    pc,                \* position of the checkout run
    swaps,             \* checkout's local `swaps`
    donations,         \* checkout's local `donations`
    tokensToApprove,   \* checkout's local `tokensToApprove`
    idx,               \* loop index of the checkout loop in progress
    lastApprovalIndex, \* checkout's local `lastApprovalIndex`
    sent,              \* transactions sent by the current checkout run, in order
    answers,           \* the balance checks and allowance reads it got answered, in order
    error,             \* the error the last checkout run rejected with, or ""
    edits,             \* cart edits made while the current run awaited its quotes
    target,            \* the grantRounds.ts function, and so the cache key, in use
    chain,             \* the events of blocks START_BLOCK..Len(chain), one kind a block
    now,               \* Date.now() / 1000
    roundContract,     \* startTime and endTime held by the GrantRound contract
    inputs,            \* data store: contributions, trust bonus, round funds, grant ids
    cache,             \* what the storage holds under the key: an entry, or Absent
    calls,             \* the invocations of the function in flight, and their locals
    lastStatus,        \* status computed by the latest getGrantRound read
    details,           \* a getGrantsGrantRoundDetails call: its arguments and outcome
    predicted          \* a prediction run of getGrantRoundGrantData: its arguments and outcome

cartVars == <<cart, lsCart, localStorage, lastOp, throws, edits>>
convVars == <<quotes, conv>>
fixVars == <<fixIn, fixOut, fixTwice>>
runVars == <<pc, swaps, donations, tokensToApprove, idx, lastApprovalIndex, sent, answers,
            error>>
roundVars == <<target, chain, now, roundContract, inputs, cache, calls, lastStatus, details,
              predicted>>
vars == <<cart, lsCart, localStorage, cartStatus, lastOp, throws, quotes, conv, fixIn, fixOut,
          fixTwice, pc, swaps, donations, tokensToApprove, idx, lastApprovalIndex, sent, answers,
          error, edits, target, chain, now, roundContract, inputs, cache, calls, lastStatus,
          details, predicted>>

None == [kind |-> "none"]

\* ------------------------------------------------------------------------
\* fixDonationRoundingErrors
\* ------------------------------------------------------------------------
\* donations.reduce((acc, curr) => acc.add(curr.token === token ? curr.ratio : 0), 0)
RECURSIVE RatioSumFrom(_, _, _)
RatioSumFrom(ds, token, i) ==
    IF i > Len(ds) THEN 0
    ELSE (IF ds[i].token = token THEN ds[i].ratio ELSE 0) + RatioSumFrom(ds, token, i + 1)

\* mutant: the reduce adds every ratio, whatever its token
RatioSumAll(ds, token) == RatioSumFrom([i \in 1..Len(ds) |-> [ds[i] EXCEPT !.token = token]], token, 1)

RatioSum(ds, token) == RatioSumFrom(ds, token, 1)

\* mutant: the defensive check rejects a full group as well (gte for gt)
FixIterationGte(ds, index) ==
    LET sum == RatioSum(ds, ds[index].token) IN
    IF sum >= WAD THEN [threw |-> TRUE, donations |-> ds]
    ELSE [threw |-> FALSE,
          donations |-> [ds EXCEPT ![index].ratio = ds[index].ratio + (WAD - sum)]]

\* mutant: the defensive check is missing
FixIterationNoCheck(ds, index) ==
    LET sum == RatioSum(ds, ds[index].token) IN
    [threw |-> FALSE,
     donations |-> [ds EXCEPT ![index].ratio = ds[index].ratio + (WAD - sum)]]

\* mutant: the shortfall is computed but never applied
FixIterationNoFix(ds, index) ==
    LET sum == RatioSum(ds, ds[index].token) IN
    IF sum > WAD THEN [threw |-> TRUE, donations |-> ds]
    ELSE [threw |-> FALSE, donations |-> ds]

\* One pass of the forEach callback on donations[index]; the array is changed in place.
FixIteration(ds, index) ==
    LET sum == RatioSum(ds, ds[index].token) IN
    IF sum > WAD THEN [threw |-> TRUE, donations |-> ds]
    ELSE [threw |-> FALSE,
          donations |-> [ds EXCEPT ![index].ratio = ds[index].ratio + (WAD - sum)]]

\* donations.forEach(...) from `index` on; a throw ends the loop
RECURSIVE FixLoop(_, _)
FixLoop(ds, index) ==
    IF index > Len(ds) THEN [threw |-> FALSE, donations |-> ds]
    ELSE LET r == FixIteration(ds, index) IN
         IF r.threw THEN r ELSE FixLoop(r.donations, index + 1)

Reverse(s) == [i \in 1..Len(s) |-> s[Len(s) + 1 - i]]

\* mutant: the items are visited last to first, so the last item of a group is adjusted
fixDonationRoundingErrorsLast(ds) ==
    LET r == FixLoop(Reverse(ds), 1) IN
    [threw |-> r.threw, donations |-> Reverse(r.donations)]

\* threw = TRUE: the call ended with Error('Ratios sum to greater than 100%') and
\* returned nothing; `donations` is then the caller's array as the loop left it.
fixDonationRoundingErrors(ds) == FixLoop(ds, 1)

\* ------------------------------------------------------------------------
\* Harness for fixDonationRoundingErrors as a pure function
\* ------------------------------------------------------------------------
DonationLists ==
    LET DonationSet == [grantId : Grants, token : {DAI_ADDRESS, WETH_ADDRESS},
                        ratio : {0, 333333, 500000, WAD}, rounds : {<<"round0">>}]
    IN UNION {[1..n -> DonationSet] : n \in 0..MaxDonations}

IdleRun ==
    /\ pc = "idle" /\ swaps = << >> /\ donations = << >> /\ tokensToApprove = << >>
    /\ idx = 0 /\ lastApprovalIndex = 0 /\ sent = << >> /\ answers = << >>
    /\ error = "" /\ edits = 0

IdleCart ==
    /\ cart = EMPTY_CART /\ lsCart = EMPTY_CART /\ localStorage = [kind |-> "absent"]
    /\ cartStatus = "" /\ lastOp = None /\ throws = 0

IdleConv == quotes = [t \in {} |-> 0] /\ conv = None

IdleFix == fixIn = << >> /\ fixOut = None /\ fixTwice = None

IdleRounds ==
    /\ target = "" /\ chain = << >> /\ now = 0 /\ roundContract = None /\ inputs = None
    /\ cache = None /\ calls = << >> /\ lastStatus = "" /\ details = None
    /\ predicted = None

InitFix ==
    /\ fixIn \in DonationLists
    /\ fixOut = None /\ fixTwice = None
    /\ IdleCart /\ IdleConv /\ IdleRun /\ IdleRounds

FixOnce ==
    /\ fixOut = None
    /\ fixOut' = [kind |-> "called"] @@ fixDonationRoundingErrors(fixIn)
    /\ UNCHANGED <<fixIn, fixTwice, cartVars, cartStatus, convVars, runVars, roundVars>>

FixAgain ==
    /\ fixOut # None /\ ~fixOut.threw /\ fixTwice = None
    /\ fixTwice' = [kind |-> "called"] @@ fixDonationRoundingErrors(fixOut.donations)
    /\ UNCHANGED <<fixIn, fixOut, cartVars, cartStatus, convVars, runVars, roundVars>>

NextFix == FixOnce \/ FixAgain

SpecFix == InitFix /\ [][NextFix]_vars

\* ------------------------------------------------------------------------
\* Cart management
\* ------------------------------------------------------------------------
\* SUPPORTED_TOKENS_MAPPING[tokenAddr]: the token object, or Undefined
SupportedToken(tokenAddr) ==
    IF tokenAddr \in SUPPORTED_TOKENS THEN [address |-> tokenAddr] ELSE Undefined

\* 'contributionToken' in item ? item.contributionToken.address : item.contributionTokenAddress
ItemTokenAddr(item) ==
    IF "contributionToken" \in DOMAIN item THEN item.contributionToken.address
    ELSE item.contributionTokenAddress

StoredArray(items) == [kind |-> "array", items |-> items]

\* setCart(newCart) run on the state (curCart, curLs, curStore): the state it leaves and
\* whether it threw.  `token.address` throws a TypeError for an address that is no
\* supported token, before anything is saved.
SetCart(newCart, curCart, curLs, curStore) ==
    IF Len(newCart) = 0
    THEN [threw |-> FALSE, cart |-> EMPTY_CART, lsCart |-> EMPTY_CART,
          localStorage |-> StoredArray(EMPTY_CART)]
    ELSE IF \E i \in 1..Len(newCart) : SupportedToken(ItemTokenAddr(newCart[i])) = Undefined
    THEN [threw |-> TRUE, cart |-> curCart, lsCart |-> curLs, localStorage |-> curStore]
    ELSE [threw |-> FALSE,
          cart |-> [i \in 1..Len(newCart) |->
                      [grantId |-> newCart[i].grantId,
                       contributionAmount |-> newCart[i].contributionAmount,
                       contributionToken |-> SupportedToken(ItemTokenAddr(newCart[i]))]],
          lsCart |-> [i \in 1..Len(newCart) |->
                        [grantId |-> newCart[i].grantId,
                         contributionTokenAddress |-> SupportedToken(ItemTokenAddr(newCart[i])).address,
                         contributionAmount |-> newCart[i].contributionAmount]],
          localStorage |-> StoredArray([i \in 1..Len(newCart) |->
                        [grantId |-> newCart[i].grantId,
                         contributionTokenAddress |-> SupportedToken(ItemTokenAddr(newCart[i])).address,
                         contributionAmount |-> newCart[i].contributionAmount]])]

Op(name, threw) == [kind |-> "op", name |-> name, threw |-> threw]

\* bookkeeping of a cart method call: whether it threw (at most MaxThrows calls do) and
\* whether it came while a checkout run awaited its quotes (at most MaxEdits calls do)
Called(threw) ==
    /\ throws' = IF threw THEN throws + 1 ELSE throws
    /\ throws' <= MaxThrows
    /\ edits' = IF pc = "quoting" THEN edits + 1 ELSE edits
    /\ edits' <= MaxEdits

\* the cart, lsCart, localStorage and lastOp left by a cart method that ends in setCart
Commit(name, r) ==
    /\ cart' = r.cart
    /\ lsCart' = r.lsCart
    /\ localStorage' = r.localStorage
    /\ lastOp' = Op(name, r.threw)
    /\ Called(r.threw)

\* mutant: a failed parse or conversion is not caught
InitializeCartResultNoCatch(store, curCart, curLs) ==
    IF store.kind = "absent" THEN SetCart(EMPTY_CART, curCart, curLs, store)
    ELSE IF store.kind = "unparseable"
    THEN [threw |-> TRUE, cart |-> curCart, lsCart |-> curLs, localStorage |-> store]
    ELSE IF store.kind = "array" THEN SetCart(store.items, curCart, curLs, store)
    ELSE SetCart(EMPTY_CART, curCart, curLs, store)

\* initializeCart(): what it leaves for a given content of localStorage
InitializeCartResult(store, curCart, curLs) ==
    IF store.kind = "absent" THEN SetCart(EMPTY_CART, curCart, curLs, store)
    ELSE IF store.kind = "unparseable"         \* JSON.parse throws, caught
    THEN SetCart(EMPTY_CART, curCart, curLs, store)
    ELSE IF store.kind = "array"
    THEN LET r == SetCart(store.items, curCart, curLs, store) IN
         IF r.threw THEN SetCart(EMPTY_CART, curCart, curLs, store) ELSE r
    ELSE SetCart(EMPTY_CART, curCart, curLs, store)

\* _lsCart.findIndex((item) => item.grantId === grantId); 0 stands for -1
FindIndex(items, grantId) ==
    IF \E i \in 1..Len(items) : items[i].grantId = grantId
    THEN CHOOSE i \in 1..Len(items) :
            /\ items[i].grantId = grantId
            /\ \A j \in 1..(i - 1) : items[j].grantId # grantId
    ELSE 0

\* mutant: only the first item of the grant is taken out
RECURSIVE FilterOutFirst(_, _)
FilterOutFirst(items, grantId) ==
    IF Len(items) = 0 THEN << >>
    ELSE IF items[1].grantId # grantId
    THEN <<items[1]>> \o FilterOutFirst(Tail(items), grantId)
    ELSE Tail(items)

\* items.filter(pred)
RECURSIVE FilterOut(_, _)
FilterOut(items, grantId) ==
    IF Len(items) = 0 THEN << >>
    ELSE IF items[1].grantId # grantId THEN <<items[1]>> \o FilterOut(Tail(items), grantId)
    ELSE FilterOut(Tail(items), grantId)

\* isInCart(grantId): the getter reads the lsCart ref
isInCart(grantId) == \E i \in 1..Len(lsCart) : lsCart[i].grantId = grantId

Initialized == lastOp # None

initializeCart ==
    LET r == InitializeCartResult(localStorage, cart, lsCart) IN
    /\ cart' = r.cart
    /\ lsCart' = r.lsCart
    /\ localStorage' = r.localStorage
    /\ lastOp' = [kind |-> "op", name |-> "initializeCart", threw |-> r.threw,
                  raw |-> localStorage.kind]
    /\ Called(r.threw)
    /\ UNCHANGED <<cartStatus, convVars, fixVars, roundVars, runVars>>

\* updateCart(grantId, data): `field` says whether data is a token address or an amount.
\* _lsCart is lsCart.value itself, so the assignment to _lsCart[index] is already a write
\* to the lsCart ref when setCart starts.
updateCart(grantId, field, data) ==
    /\ Initialized
    /\ LET index == FindIndex(lsCart, grantId)
           _lsCart == IF index = 0 THEN lsCart   \* _lsCart[-1] = ... adds no element
                      ELSE IF field = "token"
                      THEN [lsCart EXCEPT ![index].contributionTokenAddress = data]
                      ELSE [lsCart EXCEPT ![index].contributionAmount = data]
       IN Commit("updateCart", SetCart(_lsCart, cart, _lsCart, localStorage))
    /\ UNCHANGED <<cartStatus, convVars, fixVars, roundVars, runVars>>

\* mutant: the item is appended without a look at what the cart holds
addToCartNoCheck(grantId) ==
    /\ Initialized
    /\ IF grantId = UndefinedId
       THEN /\ lastOp' = Op("addToCart", FALSE)
            /\ Called(FALSE)
            /\ UNCHANGED <<cart, lsCart, localStorage>>
       ELSE Commit("addToCart",
                   SetCart(Append(lsCart, [grantId |-> grantId,
                                           contributionTokenAddress |-> DAI_ADDRESS,
                                           contributionAmount |-> DEFAULT_CONTRIBUTION_AMOUNT]),
                           cart, lsCart, localStorage))
    /\ UNCHANGED <<cartStatus, convVars, fixVars, roundVars, runVars>>

addToCart(grantId) ==
    /\ Initialized
    /\ IF grantId = UndefinedId \/ \E i \in 1..Len(cart) : cart[i].grantId = grantId
       THEN /\ lastOp' = Op("addToCart", FALSE)
            /\ Called(FALSE)
            /\ UNCHANGED <<cart, lsCart, localStorage>>
       ELSE Commit("addToCart",
                   SetCart(Append(lsCart, [grantId |-> grantId,
                                           contributionTokenAddress |-> DAI_ADDRESS,
                                           contributionAmount |-> DEFAULT_CONTRIBUTION_AMOUNT]),
                           cart, lsCart, localStorage))
    /\ UNCHANGED <<cartStatus, convVars, fixVars, roundVars, runVars>>

removeFromCart(grantId) ==
    /\ Initialized
    /\ IF grantId = UndefinedId
       THEN /\ lastOp' = Op("removeFromCart", FALSE)
            /\ Called(FALSE)
            /\ UNCHANGED <<cart, lsCart, localStorage>>
       ELSE LET r == SetCart(FilterOut(cart, grantId), cart, lsCart, localStorage) IN
            /\ cart' = r.cart
            /\ lsCart' = r.lsCart
            /\ localStorage' = r.localStorage
            /\ lastOp' = [kind |-> "op", name |-> "removeFromCart", threw |-> r.threw,
                          removed |-> Len(cart) - Len(r.cart)]
            /\ Called(r.threw)
    /\ UNCHANGED <<cartStatus, convVars, fixVars, roundVars, runVars>>

clearCart ==
    /\ Initialized
    /\ Commit("clearCart", SetCart(EMPTY_CART, cart, lsCart, localStorage))
    /\ UNCHANGED <<cartStatus, convVars, fixVars, roundVars, runVars>>

clearCartState ==
    /\ Initialized
    /\ Commit("clearCartState", SetCart(EMPTY_CART, cart, lsCart, localStorage))
    /\ cartStatus' = ""
    /\ UNCHANGED <<convVars, fixVars, roundVars, runVars>>

\* what the browser may hold under CART_KEY when the app loads
StoredItems == [grantId : Grants,
                contributionTokenAddress : CartTokens \cup {UNSUPPORTED_ADDRESS},
                contributionAmount : Amounts]
StoredValues ==
    {[kind |-> "absent"], [kind |-> "unparseable"], [kind |-> "nonArray"]}
    \cup {StoredArray(items) : items \in UNION {[1..n -> StoredItems] : n \in 0..MaxStored}}

\* ------------------------------------------------------------------------
\* Checkout
\* ------------------------------------------------------------------------
\* SWAP_PATHS: the ETH path starts at WETH; the DAI "path" is the token itself
SWAP_PATHS == [t \in SUPPORTED_TOKENS |->
                 IF t = ETH_ADDRESS THEN <<WETH_ADDRESS, DAI_ADDRESS>>
                 ELSE IF t = GTC_ADDRESS THEN <<GTC_ADDRESS, WETH_ADDRESS, DAI_ADDRESS>>
                 ELSE <<DAI_ADDRESS>>]

getInputToken(swap) == swap.path[1]

RECURSIVE Pow10(_)
Pow10(n) == IF n = 0 THEN 1 ELSE 10 * Pow10(n - 1)

\* parseUnits(String(amount), decimals) for a whole, non-negative amount
parseUnits(amount, decimals) == amount * Pow10(decimals)

\* cartSummary: token address -> total amount, as the list of its entries in key
\* (insertion) order
RECURSIVE CartSummaryFrom(_, _, _)
CartSummaryFrom(items, i, output) ==
    IF i > Len(items) THEN output
    ELSE LET tokenAddress == items[i].contributionToken.address
             amount == items[i].contributionAmount
         IN IF \E j \in 1..Len(output) : output[j].token = tokenAddress
            THEN LET j == CHOOSE j \in 1..Len(output) : output[j].token = tokenAddress IN
                 CartSummaryFrom(items, i + 1, [output EXCEPT ![j].amount = @ + amount])
            ELSE CartSummaryFrom(items, i + 1,
                                 Append(output, [token |-> tokenAddress, amount |-> amount]))

cartSummary(items) == CartSummaryFrom(items, 1, << >>)

\* the synchronous part of the swapPromises callbacks: amountIn and path of every swap
\* (amountOutMin plays no part in what is modelled and is left out)
SwapsOf(items) ==
    LET summary == cartSummary(items) IN
    [i \in 1..Len(summary) |->
        [amountIn |-> parseUnits(summary[i].amount, TOKEN_DECIMALS),
         path |-> SWAP_PATHS[summary[i].token]]]

\* isSwapRequired is false for some swap: quoteExactInput is awaited
NeedsQuote(sw) == \E i \in 1..Len(sw) : Len(sw[i].path) # 1

DonationToken(item) ==
    IF item.contributionToken.address = ETH_ADDRESS THEN WETH_ADDRESS
    ELSE item.contributionToken.address

FindSwap(sw, tokenAddress) ==
    IF \E i \in 1..Len(sw) : getInputToken(sw[i]) = tokenAddress
    THEN CHOOSE i \in 1..Len(sw) :
            /\ getInputToken(sw[i]) = tokenAddress
            /\ \A j \in 1..(i - 1) : getInputToken(sw[j]) # tokenAddress
    ELSE 0

\* the error the cart.value.map callback throws for an item, or ""
ItemError(item, sw) ==
    IF FindSwap(sw, DonationToken(item)) = 0 THEN "Could not find matching swap for donation"
    ELSE IF sw[FindSwap(sw, DonationToken(item))].amountIn = 0 THEN "division by zero"
    ELSE ""

\* the donation object built for an item: ratio = donationAmount.mul(WAD).div(swap.amountIn)
NaiveDonation(item, sw) ==
    [grantId |-> item.grantId,
     token |-> DonationToken(item),
     ratio |-> (parseUnits(item.contributionAmount, TOKEN_DECIMALS) * WAD)
                   \div sw[FindSwap(sw, DonationToken(item))].amountIn,
     rounds |-> <<"round0">>]

\* mutant: the naive donations are returned without fixDonationRoundingErrors
DonationInputsNoFix(items, sw) ==
    IF \E i \in 1..Len(items) : ItemError(items[i], sw) # ""
    THEN LET i == CHOOSE i \in 1..Len(items) :
                    /\ ItemError(items[i], sw) # ""
                    /\ \A j \in 1..(i - 1) : ItemError(items[j], sw) = ""
         IN [error |-> ItemError(items[i], sw), donations |-> << >>]
    ELSE [error |-> "", donations |-> [i \in 1..Len(items) |-> NaiveDonation(items[i], sw)]]

\* The second half of getCartDonationInputs: the donations built from the cart as it is
\* now and the swaps computed earlier, then fixDonationRoundingErrors.
DonationInputs(items, sw) ==
    IF \E i \in 1..Len(items) : ItemError(items[i], sw) # ""
    THEN LET i == CHOOSE i \in 1..Len(items) :
                    /\ ItemError(items[i], sw) # ""
                    /\ \A j \in 1..(i - 1) : ItemError(items[j], sw) = ""
         IN [error |-> ItemError(items[i], sw), donations |-> << >>]
    ELSE LET r == fixDonationRoundingErrors([i \in 1..Len(items) |-> NaiveDonation(items[i], sw)])
         IN IF r.threw THEN [error |-> "Ratios sum to greater than 100%", donations |-> << >>]
            ELSE [error |-> "", donations |-> r.donations]

\* --- control flow of checkout(): the position reached after the synchronous code that
\* follows an await, as [pc, idx, tta (tokensToApprove), status (cartStatus)] ---
\* `${lastApprovalIndex + 1} of ${txsNeeded} pending`
Pending(k, n) == ToString(k) \o " of " \o ToString(n) \o " pending"

\* mutant: the status before donate counts the approvals mined, without the `+ 1`
ToDonateNoPlusOne(done, tta) ==
    [pc |-> "donate", idx |-> 0, tta |-> tta, status |-> Pending(done, Len(tta) + 1)]

\* the approval loop is over: cartStatus is set and manager.donate is called
ToDonate(done, tta) ==
    [pc |-> "donate", idx |-> 0, tta |-> tta, status |-> Pending(done + 1, Len(tta) + 1)]

\* iteration i of the approval loop: cartStatus is set and token.approve is called
ToApprove(i, tta) ==
    IF i > Len(tta) THEN ToDonate(i - 1, tta)
    ELSE [pc |-> "approve", idx |-> i, tta |-> tta, status |-> Pending(i, Len(tta) + 1)]

\* the allowance loop from swap i on: ETH and WETH swaps are skipped without a read
RECURSIVE ToAllowance(_, _, _, _)
ToAllowance(sw, i, tta, status) ==
    IF i > Len(sw) THEN ToApprove(1, tta)
    ELSE IF getInputToken(sw[i]) \in {ETH_ADDRESS, WETH_ADDRESS} THEN ToAllowance(sw, i + 1, tta, status)
    ELSE [pc |-> "allowance", idx |-> i, tta |-> tta, status |-> status]

\* the balance loop from swap i on
ToBalance(sw, i, status) ==
    IF i > Len(sw) THEN ToAllowance(sw, 1, << >>, status)
    ELSE [pc |-> "balance", idx |-> i, tta |-> << >>, status |-> status]

Goto(c) ==
    /\ pc' = c.pc
    /\ idx' = c.idx
    /\ tokensToApprove' = c.tta
    /\ cartStatus' = c.status

\* catch (e) { cartStatus.value = ''; throw e; }
Fail(e) ==
    /\ pc' = "failed"
    /\ idx' = 0
    /\ cartStatus' = ""
    /\ error' = e
    /\ UNCHANGED <<tokensToApprove, lastApprovalIndex, sent, answers>>

\* getCartDonationInputs resumes after `await Promise.all(swapPromises)`: the donations
\* are built from the cart as it is now
BuildDonations(sw) ==
    LET r == DonationInputs(cart, sw) IN
    IF r.error # ""
    THEN /\ pc' = "failed" /\ idx' = 0 /\ cartStatus' = "" /\ error' = r.error
         /\ donations' = << >>
         /\ tokensToApprove' = << >>
    ELSE /\ donations' = r.donations
         /\ error' = ""
         /\ Goto(ToBalance(sw, 1, cartStatus))

\* checkout() is called: the swaps are computed from cartSummary; when no swap needs a
\* quote nothing is awaited on the network and the donations are built at once
CheckoutStart ==
    /\ Initialized
    /\ pc \in {"idle", "done", "failed"}
    /\ swaps' = SwapsOf(cart)
    /\ sent' = << >>
    /\ answers' = << >>
    /\ lastApprovalIndex' = 0
    /\ IF NeedsQuote(SwapsOf(cart))
       THEN /\ pc' = "quoting" /\ idx' = 0 /\ error' = ""
            /\ donations' = << >> /\ tokensToApprove' = << >>
            /\ UNCHANGED cartStatus
       ELSE BuildDonations(SwapsOf(cart))
    /\ edits' = 0
    /\ UNCHANGED <<cart, lsCart, localStorage, lastOp, throws, convVars, fixVars, roundVars>>

QuoteDone ==
    /\ pc = "quoting"
    /\ BuildDonations(swaps)
    /\ UNCHANGED <<swaps, sent, answers, lastApprovalIndex, cartVars, convVars, fixVars, roundVars>>

QuoteFailed ==
    /\ pc = "quoting"
    /\ Fail("quoteExactInput failed")
    /\ UNCHANGED <<swaps, donations, cartVars, convVars, fixVars, roundVars>>

\* what the run was answered about a token: that its balance suffices (allowance 0
\* stands for nothing read), or the allowance read
Answer(kind, token, allowance) == [kind |-> kind, token |-> token, allowance |-> allowance]

\* assertSufficientBalance resolves
BalanceOk ==
    /\ pc = "balance"
    /\ answers' = Append(answers, Answer("balance", getInputToken(swaps[idx]), 0))
    /\ Goto(ToBalance(swaps, idx + 1, cartStatus))
    /\ UNCHANGED <<swaps, donations, lastApprovalIndex, sent, error, cartVars, convVars, fixVars, roundVars>>

BalanceInsufficient ==
    /\ pc = "balance"
    /\ Fail("insufficient balance")
    /\ UNCHANGED <<swaps, donations, cartVars, convVars, fixVars, roundVars>>

\* the allowances the token contracts may report: none, one token, and what an
\* approval sets
MaxUint256 == 2147483647            \* 2^256 - 1 in the source, scaled
Allowances == {0, parseUnits(1, TOKEN_DECIMALS), MaxUint256}

\* mutant: an allowance equal to the swap input asks for an approval too (lte for lt)
AllowanceReadLte(allowance) ==
    /\ pc = "allowance"
    /\ Goto(ToAllowance(swaps, idx + 1,
                        IF allowance <= swaps[idx].amountIn
                        THEN Append(tokensToApprove, getInputToken(swaps[idx]))
                        ELSE tokensToApprove,
                        cartStatus))
    /\ answers' = Append(answers, Answer("allowance", getInputToken(swaps[idx]), allowance))
    /\ UNCHANGED <<swaps, donations, lastApprovalIndex, sent, error, cartVars, convVars, fixVars, roundVars>>

\* token.allowance resolves: if (allowance.lt(swap.amountIn)) tokensToApprove.push(...)
AllowanceRead(allowance) ==
    /\ pc = "allowance"
    /\ Goto(ToAllowance(swaps, idx + 1,
                        IF allowance < swaps[idx].amountIn
                        THEN Append(tokensToApprove, getInputToken(swaps[idx]))
                        ELSE tokensToApprove,
                        cartStatus))
    /\ answers' = Append(answers, Answer("allowance", getInputToken(swaps[idx]), allowance))
    /\ UNCHANGED <<swaps, donations, lastApprovalIndex, sent, error, cartVars, convVars, fixVars, roundVars>>

AllowanceFailed ==
    /\ pc = "allowance"
    /\ Fail("allowance call failed")
    /\ UNCHANGED <<swaps, donations, cartVars, convVars, fixVars, roundVars>>

\* mutant: the next approval is sent without waiting for this one to be mined
ApproveSentNoWait ==
    /\ pc = "approve"
    /\ sent' = Append(sent, [kind |-> "approve", token |-> tokensToApprove[idx]])
    /\ Goto(ToApprove(idx + 1, tokensToApprove))
    /\ UNCHANGED <<swaps, donations, lastApprovalIndex, error, answers,
                   cartVars, convVars, fixVars, roundVars>>

\* token.approve resolves: the approval transaction was sent
ApproveSent ==
    /\ pc = "approve"
    /\ sent' = Append(sent, [kind |-> "approve", token |-> tokensToApprove[idx]])
    /\ pc' = "mining"
    /\ UNCHANGED <<idx, tokensToApprove, cartStatus, swaps, donations, lastApprovalIndex, error,
                   answers, cartVars, convVars, fixVars, roundVars>>

ApproveRejected ==
    /\ pc = "approve"
    /\ Fail("approve rejected")
    /\ UNCHANGED <<swaps, donations, cartVars, convVars, fixVars, roundVars>>

\* tx.wait() resolves: the approval is mined
ApproveMined ==
    /\ pc = "mining"
    /\ lastApprovalIndex' = lastApprovalIndex + 1
    /\ Goto(ToApprove(idx + 1, tokensToApprove))
    /\ UNCHANGED <<swaps, donations, sent, answers, error, cartVars, convVars, fixVars, roundVars>>

ApproveReverted ==
    /\ pc = "mining"
    /\ Fail("approval reverted")
    /\ UNCHANGED <<swaps, donations, cartVars, convVars, fixVars, roundVars>>

\* the value sent with donate: the amountIn of the WETH swap, or 0
DonateValue(sw) ==
    IF FindSwap(sw, WETH_ADDRESS) = 0 THEN 0 ELSE sw[FindSwap(sw, WETH_ADDRESS)].amountIn

\* manager.donate resolves: the donate transaction was sent
DonateSent ==
    /\ pc = "donate"
    /\ sent' = Append(sent, [kind |-> "donate", swaps |-> swaps, donations |-> donations,
                             value |-> DonateValue(swaps)])
    /\ pc' = "done"
    /\ UNCHANGED <<idx, tokensToApprove, cartStatus, swaps, donations, lastApprovalIndex, error,
                   answers, cartVars, convVars, fixVars, roundVars>>

DonateRejected ==
    /\ pc = "donate"
    /\ Fail("donate rejected")
    /\ UNCHANGED <<swaps, donations, cartVars, convVars, fixVars, roundVars>>

Init ==
    /\ cart = EMPTY_CART /\ lsCart = EMPTY_CART
    /\ localStorage \in StoredValues
    /\ cartStatus = "" /\ lastOp = None /\ throws = 0
    /\ IdleConv /\ IdleFix /\ IdleRun /\ IdleRounds

\* The cart is loaded once, when the app starts; the user may edit it while a run awaits
\* its quotes, the only await after which the run reads the cart again; clearCartState
\* may come at any time.
LoadCart == ~Initialized /\ initializeCart

EditAmount == pc = "quoting" /\ \E g \in Grants, a \in Amounts : updateCart(g, "amount", a)

EditToken == pc = "quoting" /\ \E g \in Grants, t \in CartTokens : updateCart(g, "token", t)

EditAdd == pc = "quoting" /\ \E g \in Grants : addToCart(g)

EditRemove == pc = "quoting" /\ \E g \in Grants : removeFromCart(g)

Next ==
    \/ LoadCart
    \/ EditAmount
    \/ EditToken
    \/ EditAdd
    \/ EditRemove
    \/ clearCartState
    \/ CheckoutStart
    \/ QuoteDone
    \/ QuoteFailed
    \/ BalanceOk
    \/ BalanceInsufficient
    \/ \E allowance \in Allowances : AllowanceRead(allowance)
    \/ AllowanceFailed
    \/ ApproveSent
    \/ ApproveRejected
    \/ ApproveMined
    \/ ApproveReverted
    \/ DonateSent
    \/ DonateRejected

Spec == Init /\ [][Next]_vars

\* ------------------------------------------------------------------------
\* Checkout runs on carts of every supported token
\* ------------------------------------------------------------------------
\* the carts found at load time: items of every supported token, GTC included
CheckoutItems == [grantId : Grants,
                  contributionTokenAddress : SUPPORTED_TOKENS,
                  contributionAmount : Amounts]

InitCheckout ==
    /\ cart = EMPTY_CART /\ lsCart = EMPTY_CART
    /\ localStorage \in {StoredArray(items) :
                            items \in UNION {[1..n -> CheckoutItems] : n \in 0..MaxStored}}
    /\ cartStatus = "" /\ lastOp = None /\ throws = 0
    /\ IdleConv /\ IdleFix /\ IdleRun /\ IdleRounds

\* the cart is loaded once and not edited; checkout runs follow one another, and
\* clearCartState may come at any time
NextCheckout ==
    \/ LoadCart
    \/ clearCartState
    \/ CheckoutStart
    \/ QuoteDone
    \/ QuoteFailed
    \/ BalanceOk
    \/ BalanceInsufficient
    \/ \E allowance \in Allowances : AllowanceRead(allowance)
    \/ AllowanceFailed
    \/ ApproveSent
    \/ ApproveRejected
    \/ ApproveMined
    \/ ApproveReverted
    \/ DonateSent
    \/ DonateRejected

SpecCheckout == InitCheckout /\ [][NextCheckout]_vars

\* ------------------------------------------------------------------------
\* The cart methods on their own
\* ------------------------------------------------------------------------
\* every cart method, in any order
NextCart ==
    \/ initializeCart
    \/ \E g \in Grants, a \in Amounts : updateCart(g, "amount", a)
    \/ \E g \in Grants, t \in CartTokens \cup {UNSUPPORTED_ADDRESS} : updateCart(g, "token", t)
    \/ \E g \in Grants \cup {UndefinedId} : addToCart(g)
    \/ \E g \in Grants \cup {UndefinedId} : removeFromCart(g)
    \/ clearCart
    \/ clearCartState

SpecCart == Init /\ [][NextCart]_vars

\* ------------------------------------------------------------------------
\* Token value converter
\* ------------------------------------------------------------------------
\* JavaScript numbers that occur here: non-negative rationals n/d in lowest terms,
\* Infinity and NaN.  Rounding of the quotient 1/rate is not modelled.
RECURSIVE Gcd(_, _)
Gcd(a, b) == IF b = 0 THEN a ELSE Gcd(b, a % b)

Fin(n, d) == [k |-> "fin", n |-> n \div Gcd(n, d), d |-> d \div Gcd(n, d)]
Infinity == [k |-> "inf"]
NaN == [k |-> "nan"]
Zero == Fin(0, 1)

\* a * b
NumMul(a, b) ==
    IF a.k = "nan" \/ b.k = "nan" THEN NaN
    ELSE IF a.k = "inf" THEN (IF b.k = "fin" /\ b.n = 0 THEN NaN ELSE Infinity)
    ELSE IF b.k = "inf" THEN (IF a.n = 0 THEN NaN ELSE Infinity)
    ELSE Fin(a.n * b.n, a.d * b.d)

\* 1 / b
NumInv(b) ==
    IF b.k = "nan" THEN NaN
    ELSE IF b.k = "inf" THEN Zero
    ELSE IF b.n = 0 THEN Infinity
    ELSE Fin(b.d, b.n)

\* quotes.value[tokenAddress]
QuoteOf(q, tokenAddress) == IF tokenAddress \in DOMAIN q THEN q[tokenAddress] ELSE Undefined

\* mutant: a missing quote defaults to the rate 1
getConvertedAmountDefaultOne(amount, tokenAddress, direction, q) ==
    LET exchangeRate == IF QuoteOf(q, tokenAddress) = Undefined THEN Fin(1, 1)
                        ELSE QuoteOf(q, tokenAddress)
    IN [threw |-> FALSE,
        value |-> NumMul(amount, IF direction = 1 THEN exchangeRate ELSE NumInv(exchangeRate))]

\* mutant: the two directions are swapped
getConvertedAmountSwapped(amount, tokenAddress, direction, q) ==
    LET exchangeRate == IF QuoteOf(q, tokenAddress) = Undefined THEN Zero
                        ELSE QuoteOf(q, tokenAddress)
    IN [threw |-> FALSE,
        value |-> NumMul(amount, IF direction = 1 THEN NumInv(exchangeRate) ELSE exchangeRate)]

\* getConvertedAmount(amount, tokenAddress, direction) with the quote table q; the
\* function has no throw and calls nothing that throws
getConvertedAmount(amount, tokenAddress, direction, q) ==
    LET exchangeRate == IF QuoteOf(q, tokenAddress) = Undefined THEN Zero
                        ELSE QuoteOf(q, tokenAddress)
    IN [threw |-> FALSE,
        value |-> NumMul(amount, IF direction = 1 THEN exchangeRate ELSE NumInv(exchangeRate))]

\* rates the quoter may report for ETH
Rates == {Fin(0, 1), Fin(1, 2), Fin(2, 1), Fin(3, 1)}

\* fetchQuotes(): DAI is quoted 1, every other supported token what the quoter reports;
\* the table is written only after every quote has arrived
fetchQuotes(rate) ==
    /\ quotes' = [t \in SUPPORTED_TOKENS |-> IF t = DAI_ADDRESS THEN Fin(1, 1) ELSE rate]
    /\ UNCHANGED <<conv, cartVars, cartStatus, fixVars, roundVars, runVars>>

\* a call of getConvertedAmount; conv keeps the arguments, the table entry read and
\* the outcome
Convert(amount, tokenAddress, direction) ==
    /\ conv' = [kind |-> "called", amount |-> amount, token |-> tokenAddress,
                direction |-> direction, quote |-> QuoteOf(quotes, tokenAddress),
                out |-> getConvertedAmount(amount, tokenAddress, direction, quotes)]
    /\ quotes' = quotes
    /\ UNCHANGED <<cartVars, cartStatus, fixVars, roundVars, runVars>>

InitConv == IdleConv /\ IdleCart /\ IdleFix /\ IdleRun /\ IdleRounds

NextConv ==
    \/ \E rate \in Rates : fetchQuotes(rate)
    \/ \E a \in Amounts, t \in SUPPORTED_TOKENS \cup {UNSUPPORTED_ADDRESS}, d \in {1, -1} :
          Convert(Fin(a, 1), t, d)

SpecConv == InitConv /\ [][NextConv]_vars

\* ------------------------------------------------------------------------
\* Grant rounds (app/src/utils/data/grantRounds.ts)
\* ------------------------------------------------------------------------
\* The three getters work on three different storage keys and share no other state, so
\* one behaviour follows the invocations of one of them (`target`) on its key.
MaxBlock == 1          \* blocks mined while the app runs
NumCalls == 2          \* invocations that can be in flight together
MaxTime == 2           \* the clock runs from 0 to MaxTime
MaxContributions == 1  \* contributions in the data store
MaxRounds == 2         \* getAllGrantRounds is called while the stored list is no longer
MaxFunds == 2          \* getGrantRound is called while the stored funds are no higher

\* the first block the app looks at; blocks are numbered from it
START_BLOCK == 1
Absent == [kind |-> "absent"]
Functions == {"getAllGrantRounds", "getGrantRound", "getGrantRoundGrantData"}
Procs == 1..NumCalls
ROUND_ADDRESS == "round"
MATCHING_TOKEN == [address |-> DAI_ADDRESS, decimals |-> TOKEN_DECIMALS]

\* the events a getter queries for
EventKinds(fn) ==
    IF fn = "getAllGrantRounds" THEN {"none", "GrantRoundCreated"}
    ELSE IF fn = "getGrantRound" THEN {"none", "MetadataUpdated", "Transfer"}
    ELSE {"none"}

\* contract.queryFilter(filter, fromBlock, toBlock): the blocks holding such an event
RECURSIVE queryFilter(_, _, _, _)
queryFilter(ch, kind, fromBlock, toBlock) ==
    IF fromBlock > toBlock \/ fromBlock > Len(ch) THEN << >>
    ELSE (IF ch[fromBlock] = kind THEN <<fromBlock>> ELSE << >>)
         \o queryFilter(ch, kind, fromBlock + 1, toBlock)

\* what the contracts answer at the latest block: the metaPtr last set, and the round's
\* balance of its matching token (one unit a Transfer)
metaPtrOf(ch) ==
    LET u == queryFilter(ch, "MetadataUpdated", 1, Len(ch)) IN
    IF Len(u) = 0 THEN 0 ELSE u[Len(u)]
balanceOf(ch) == Len(queryFilter(ch, "Transfer", 1, Len(ch)))

\* syncStorage(key, {blockNumber}, callback): the entry it reads and writes
Entry(blockNumber, data) == [kind |-> "entry", blockNumber |-> blockNumber, data |-> data]

\* localStorageData?.blockNumber || dflt
LsBlockNumber(localStorageData, dflt) ==
    IF localStorageData = Absent \/ localStorageData.blockNumber = 0 THEN dflt
    ELSE localStorageData.blockNumber

IdleCall == [pc |-> "idle"]

\* an invocation that has read the storage and entered its callback
NewCall(fn, blockNumber, forceRefresh, localStorageData) ==
    [pc |-> "callback", fn |-> fn, blockNumber |-> blockNumber, forceRefresh |-> forceRefresh,
     localStorageData |-> localStorageData, args |-> None,
     data |-> None, shouldSave |-> FALSE, queries |-> 0, reads |-> 0, predicts |-> 0]

\* slot p can take an invocation; the slots are alike, so the lowest free one takes it
Free(p) ==
    /\ calls[p].pc \in {"idle", "failed", "abandoned"}
    /\ \A q \in 1..(p - 1) : calls[q].pc \notin {"idle", "failed", "abandoned"}
Awaiting(p) == calls[p].pc \in {"queryFilter", "matchingToken", "multicall", "events", "predict"}

\* ---- getAllGrantRounds ----
\* mutant: an entry of the requested block is refreshed too
AllRoundsRefreshLte(c) ==
    \/ c.forceRefresh
    \/ c.localStorageData = Absent
    \/ LsBlockNumber(c.localStorageData, START_BLOCK) <= c.blockNumber

AllRoundsRefresh(c) ==
    \/ c.forceRefresh
    \/ c.localStorageData = Absent
    \/ LsBlockNumber(c.localStorageData, START_BLOCK) < c.blockNumber

\* localStorageData?.data?.roundAddresses || []
LsRoundAddresses(localStorageData) ==
    IF localStorageData = Absent THEN << >> ELSE localStorageData.data.roundAddresses

\* from `const roundAddresses = ...` to the return: save() only marks the entry for
\* writing
AllRoundsTail(c, ls_roundAddresses) ==
    [c EXCEPT !.pc = "settle",
              !.data = [roundAddresses |-> ls_roundAddresses],
              !.shouldSave = Len(ls_roundAddresses) > 0]

getAllGrantRounds(p, blockNumber, forceRefresh) ==
    /\ target = "getAllGrantRounds" /\ Free(p)
    /\ blockNumber <= Len(chain)
    /\ Len(LsRoundAddresses(cache)) <= MaxRounds
    /\ LET c == NewCall("getAllGrantRounds", blockNumber, forceRefresh, cache) IN
       calls' = [calls EXCEPT ![p] =
                   IF AllRoundsRefresh(c)
                   THEN [c EXCEPT !.pc = "queryFilter", !.queries = 1]
                   ELSE AllRoundsTail(c, LsRoundAddresses(cache))]
    /\ UNCHANGED <<target, chain, now, roundContract, inputs, cache, lastStatus, details, predicted>>
    /\ UNCHANGED <<cartVars, cartStatus, convVars, fixVars, runVars>>

\* the GrantRoundCreated query answers
AllRoundsQueried(p) ==
    /\ calls[p].pc = "queryFilter"
    /\ LET c == calls[p]
           fromBlock == LsBlockNumber(c.localStorageData, START_BLOCK) + 1
           newRounds == queryFilter(chain, "GrantRoundCreated", fromBlock, c.blockNumber)
       IN calls' = [calls EXCEPT ![p] =
                      AllRoundsTail(c, LsRoundAddresses(c.localStorageData) \o newRounds)]
    /\ UNCHANGED <<target, chain, now, roundContract, inputs, cache, lastStatus, details, predicted>>
    /\ UNCHANGED <<cartVars, cartStatus, convVars, fixVars, runVars>>

\* ---- getGrantRound ----
\* mutant: a round is not yet Active at the second it starts
GrantRoundStatusStrict(t, startTime, endTime) ==
    IF t > startTime /\ t < endTime THEN "Active"
    ELSE IF t < startTime THEN "Upcoming"
    ELSE "Completed"

\* mutant: the start of the round is not looked at before the round is called Active
GrantRoundStatusEndOnly(t, startTime, endTime) ==
    IF t < endTime THEN "Active"
    ELSE IF t < startTime THEN "Upcoming"
    ELSE "Completed"

\* the status expression of the returned GrantRound
GrantRoundStatus(t, startTime, endTime) ==
    IF t >= startTime /\ t < endTime THEN "Active"
    ELSE IF t < startTime THEN "Upcoming"
    ELSE "Completed"

\* from `const now = ...` to the return.  The other fields of the round (admins,
\* registry, hasPaidOut, donationToken) are read and copied like startTime.
GrantRoundTail(c, f, t) ==
    [c EXCEPT !.pc = "settle",
              !.data = [startTime |-> f.startTime, endTime |-> f.endTime,
                        metaPtr |-> f.metaPtr, funds |-> f.funds,
                        matchingToken |-> f.matchingToken, address |-> ROUND_ADDRESS,
                        status |-> GrantRoundStatus(t, f.startTime, f.endTime)],
              !.shouldSave = TRUE]       \* startTime is a BigNumber object: truthy

\* the fields destructured from localStorageData.data.grantRound
LsGrantRound(localStorageData) ==
    [startTime |-> localStorageData.data.startTime, endTime |-> localStorageData.data.endTime,
     metaPtr |-> localStorageData.data.metaPtr, funds |-> localStorageData.data.funds,
     matchingToken |-> localStorageData.data.matchingToken]

getGrantRound(p, blockNumber, forceRefresh) ==
    /\ target = "getGrantRound" /\ Free(p)
    /\ blockNumber <= Len(chain)
    /\ IF cache = Absent THEN TRUE ELSE cache.data.funds <= MaxFunds
    /\ LET c == NewCall("getGrantRound", blockNumber, forceRefresh, cache)
           r == IF cache = Absent
                THEN [c EXCEPT !.pc = "matchingToken", !.reads = 1]
                ELSE IF forceRefresh
                THEN [c EXCEPT !.pc = "multicall", !.reads = 1]
                ELSE IF LsBlockNumber(cache, 0) < blockNumber
                THEN [c EXCEPT !.pc = "events", !.queries = 2]
                ELSE GrantRoundTail(c, LsGrantRound(cache), now)
       IN /\ calls' = [calls EXCEPT ![p] = r]
          /\ lastStatus' = IF r.pc = "settle" THEN r.data.status ELSE lastStatus
    /\ UNCHANGED <<target, chain, now, roundContract, inputs, cache, details, predicted>>
    /\ UNCHANGED <<cartVars, cartStatus, convVars, fixVars, runVars>>

\* roundContract.matchingToken() answers: nothing was stored, so the multicall follows
MatchingTokenRead(p) ==
    /\ calls[p].pc = "matchingToken"
    /\ calls' = [calls EXCEPT ![p].pc = "multicall", ![p].reads = 2]
    /\ UNCHANGED <<target, chain, now, roundContract, inputs, cache, lastStatus, details, predicted>>
    /\ UNCHANGED <<cartVars, cartStatus, convVars, fixVars, runVars>>

\* callMulticallContract answers with the state of the contracts at the latest block
MulticallDone(p) ==
    /\ calls[p].pc = "multicall"
    /\ LET r == GrantRoundTail(calls[p],
                               [startTime |-> roundContract.startTime,
                                endTime |-> roundContract.endTime,
                                metaPtr |-> metaPtrOf(chain), funds |-> balanceOf(chain),
                                matchingToken |-> MATCHING_TOKEN],
                               now)
       IN /\ calls' = [calls EXCEPT ![p] = r]
          /\ lastStatus' = r.data.status
    /\ UNCHANGED <<target, chain, now, roundContract, inputs, cache, details, predicted>>
    /\ UNCHANGED <<cartVars, cartStatus, convVars, fixVars, runVars>>

\* the MetadataUpdated and Transfer queries answer
EventsQueried(p) ==
    /\ calls[p].pc = "events"
    /\ LET c == calls[p]
           ls == LsGrantRound(c.localStorageData)
           fromBlock == LsBlockNumber(c.localStorageData, 0) + 1
           updatedMetadata == queryFilter(chain, "MetadataUpdated", fromBlock, c.blockNumber)
           newTransfers == queryFilter(chain, "Transfer", fromBlock, c.blockNumber)
           r == GrantRoundTail(c,
                    [ls EXCEPT !.metaPtr = IF Len(updatedMetadata) = 0 THEN ls.metaPtr
                                           ELSE updatedMetadata[Len(updatedMetadata)],
                               !.funds = ls.funds + Len(newTransfers)],
                    now)
       IN /\ calls' = [calls EXCEPT ![p] = r]
          /\ lastStatus' = r.data.status
    /\ UNCHANGED <<target, chain, now, roundContract, inputs, cache, details, predicted>>
    /\ UNCHANGED <<cartVars, cartStatus, convVars, fixVars, runVars>>

\* ---- getGrantRoundGrantData ----
\* clr.predict(...): the prediction of a grant, named by what it was computed from
Predict(grantId, contributions, trustBonus, totalPot) ==
    [grantId |-> grantId, contributions |-> contributions, trustBonus |-> trustBonus,
     totalPot |-> totalPot]

\* Object.values(contributions).filter((c) => c.inRounds?.includes(grantRound.address))
RECURSIVE InRound(_)
InRound(contributions) ==
    IF Len(contributions) = 0 THEN << >>
    ELSE (IF contributions[1].inRound THEN <<contributions[1]>> ELSE << >>)
         \o InRound(Tail(contributions))

CLRRefresh(c) ==
    \/ c.forceRefresh
    \/ c.localStorageData = Absent
    \/ LsBlockNumber(c.localStorageData, START_BLOCK) < c.blockNumber

LsContributions(localStorageData) ==
    IF localStorageData = Absent THEN << >> ELSE localStorageData.data.contributions
LsPredictions(localStorageData) ==
    IF localStorageData = Absent THEN << >> ELSE localStorageData.data.predictions

\* from `const grantRoundCLR = ...` to the return
CLRTail(c, ls_grantDonations, ls_grantPredictions) ==
    [c EXCEPT !.pc = "settle",
              !.data = [grantRound |-> ROUND_ADDRESS, totalPot |-> c.args.funds,
                        contributions |-> ls_grantDonations,
                        predictions |-> ls_grantPredictions],
              !.shouldSave = Len(ls_grantDonations) > 0]

\* the arguments are the data store's values at the time of the call
getGrantRoundGrantData(p, blockNumber, forceRefresh) ==
    /\ target = "getGrantRoundGrantData" /\ Free(p)
    /\ blockNumber <= Len(chain)
    /\ LET c0 == NewCall("getGrantRoundGrantData", blockNumber, forceRefresh, cache)
           c == [c0 EXCEPT !.args = inputs]
           oldDonationCount == Len(LsContributions(cache))
           ls_grantDonations == InRound(inputs.contributions)
       IN calls' = [calls EXCEPT ![p] =
            IF ~CLRRefresh(c) THEN CLRTail(c, LsContributions(cache), LsPredictions(cache))
            ELSE IF \/ Len(ls_grantDonations) > oldDonationCount
                    \/ inputs.grantIds > Len(LsPredictions(cache))
            THEN [c EXCEPT !.pc = "predict", !.predicts = inputs.grantIds]
            ELSE CLRTail(c, ls_grantDonations, LsPredictions(cache))]
    /\ UNCHANGED <<target, chain, now, roundContract, inputs, cache, lastStatus, details, predicted>>
    /\ UNCHANGED <<cartVars, cartStatus, convVars, fixVars, runVars>>

\* every clr.predict has answered
Predicted(p) ==
    /\ calls[p].pc = "predict"
    /\ LET c == calls[p]
           ls_grantDonations == InRound(c.args.contributions)
       IN calls' = [calls EXCEPT ![p] =
            CLRTail(c, ls_grantDonations,
                    [g \in 1..c.args.grantIds |->
                       Predict(g, ls_grantDonations, c.args.trustBonus, c.args.funds)])]
    /\ UNCHANGED <<target, chain, now, roundContract, inputs, cache, lastStatus, details, predicted>>
    /\ UNCHANGED <<cartVars, cartStatus, convVars, fixVars, runVars>>

\* ---- the steps the three getters share ----
\* mutant: the entry is marked and written before the awaited answer is in
RejectedAfterSave(p) ==
    /\ Awaiting(p)
    /\ calls' = [calls EXCEPT ![p] = [pc |-> "failed"]]
    /\ cache' = Entry(calls[p].blockNumber, None)
    /\ UNCHANGED <<target, chain, now, roundContract, inputs, lastStatus, details, predicted>>
    /\ UNCHANGED <<cartVars, cartStatus, convVars, fixVars, runVars>>

\* the awaited query, read or prediction rejects: the callback throws at its await and
\* syncStorage rejects without writing
Rejected(p) ==
    /\ Awaiting(p)
    /\ calls' = [calls EXCEPT ![p] = [pc |-> "failed"]]
    /\ UNCHANGED <<target, chain, now, roundContract, inputs, cache, lastStatus, details, predicted>>
    /\ UNCHANGED <<cartVars, cartStatus, convVars, fixVars, runVars>>

\* the awaited answer never comes, or comes to a page that is gone
Abandoned(p) ==
    /\ Awaiting(p)
    /\ calls' = [calls EXCEPT ![p] = [pc |-> "abandoned"]]
    /\ UNCHANGED <<target, chain, now, roundContract, inputs, cache, lastStatus, details, predicted>>
    /\ UNCHANGED <<cartVars, cartStatus, convVars, fixVars, runVars>>

\* syncStorage resumes after `await callback(...)`: it writes the entry when save() was
\* called, under the blockNumber the getter was called with, and returns the data
Settle(p) ==
    /\ calls[p].pc = "settle"
    /\ cache' = IF calls[p].shouldSave THEN Entry(calls[p].blockNumber, calls[p].data)
                ELSE cache
    /\ calls' = [calls EXCEPT ![p] = IdleCall]
    /\ UNCHANGED <<target, chain, now, roundContract, inputs, lastStatus, details, predicted>>
    /\ UNCHANGED <<cartVars, cartStatus, convVars, fixVars, runVars>>

\* ---- the world around the getters ----
NewBlock ==
    /\ Len(chain) < START_BLOCK + MaxBlock
    /\ \E kind \in EventKinds(target) : chain' = Append(chain, kind)
    /\ UNCHANGED <<target, now, roundContract, inputs, cache, calls, lastStatus, details, predicted>>
    /\ UNCHANGED <<cartVars, cartStatus, convVars, fixVars, runVars>>

\* the clock never goes backward
Tick ==
    /\ target = "getGrantRound"
    /\ now < MaxTime
    /\ now' = now + 1
    /\ UNCHANGED <<target, chain, roundContract, inputs, cache, calls, lastStatus, details, predicted>>
    /\ UNCHANGED <<cartVars, cartStatus, convVars, fixVars, runVars>>

Funds == {1, 2}
TrustScores == {1}

\* the data store learns of a contribution, of a trust bonus, of a new balance of the
\* round or of a grant
DataChanged ==
    /\ target = "getGrantRoundGrantData"
    /\ \/ /\ Len(inputs.contributions) < MaxContributions
          /\ \E inRound \in BOOLEAN :
                inputs' = [inputs EXCEPT !.contributions =
                             Append(@, [txHash |-> Len(@) + 1, inRound |-> inRound])]
       \/ \E s \in TrustScores : s > inputs.trustBonus /\ inputs' = [inputs EXCEPT !.trustBonus = s]
       \/ \E f \in Funds : f > inputs.funds /\ inputs' = [inputs EXCEPT !.funds = f]
       \/ inputs.grantIds < NumGrants /\ inputs' = [inputs EXCEPT !.grantIds = @ + 1]
    /\ UNCHANGED <<target, chain, now, roundContract, cache, calls, lastStatus, details, predicted>>
    /\ UNCHANGED <<cartVars, cartStatus, convVars, fixVars, runVars>>

InitRounds ==
    /\ target \in Functions
    /\ \E kind \in (IF target = "getAllGrantRounds" THEN EventKinds(target) ELSE {"none"}) :
          chain = <<kind>>
    /\ now = 0
    /\ roundContract \in (IF target = "getGrantRound"
                          THEN [startTime : 1..MaxTime, endTime : 1..MaxTime] ELSE {None})
    /\ inputs = IF target = "getGrantRoundGrantData"
                THEN [contributions |-> << >>, trustBonus |-> 1, funds |-> 1, grantIds |-> 1]
                ELSE None
    /\ cache = Absent
    /\ calls = [p \in Procs |-> IdleCall]
    /\ lastStatus = ""
    /\ details = None
    /\ predicted = None
    /\ IdleCart /\ IdleConv /\ IdleFix /\ IdleRun

NextRounds ==
    \/ \E p \in Procs, b \in START_BLOCK..(START_BLOCK + MaxBlock), f \in BOOLEAN :
          getAllGrantRounds(p, b, f)
    \/ \E p \in Procs : AllRoundsQueried(p)
    \/ \E p \in Procs, b \in START_BLOCK..(START_BLOCK + MaxBlock), f \in BOOLEAN :
          getGrantRound(p, b, f)
    \/ \E p \in Procs : MatchingTokenRead(p)
    \/ \E p \in Procs : MulticallDone(p)
    \/ \E p \in Procs : EventsQueried(p)
    \/ \E p \in Procs, b \in START_BLOCK..(START_BLOCK + MaxBlock), f \in BOOLEAN :
          getGrantRoundGrantData(p, b, f)
    \/ \E p \in Procs : Predicted(p)
    \/ \E p \in Procs : Rejected(p)
    \/ \E p \in Procs : Abandoned(p)
    \/ \E p \in Procs : Settle(p)
    \/ NewBlock
    \/ Tick
    \/ DataChanged

SpecRounds == InitRounds /\ [][NextRounds]_vars

\* ------------------------------------------------------------------------
\* getGrantsGrantRoundDetails as a pure function
\* ------------------------------------------------------------------------
\* obj[key] of a JavaScript object: the value, or undefined
Lookup(obj, key) == IF key \in DOMAIN obj THEN obj[key] ELSE Undefined

\* formatNumber(value, 2)
formatNumber(value) == [formatted |-> value]

\* getPredictionsForGrantInRound(grantId, roundData): reading `.predictions` of an
\* undefined roundData throws a TypeError.  A roundData whose `predictions` is undefined
\* is written [set |-> FALSE, ...].
getPredictionsForGrantInRound(grantId, roundData) ==
    IF roundData = Undefined THEN [threw |-> TRUE, value |-> Undefined]
    ELSE IF ~roundData.set THEN [threw |-> FALSE, value |-> Undefined]
    ELSE [threw |-> FALSE, value |-> Lookup(roundData.predictions, grantId)]

\* filterContributionsByGrantId, then filterContributionsByGrantRound, then the sum
RECURSIVE RoundContributions(_, _, _)
RoundContributions(contributions, grantId, round) ==
    IF Len(contributions) = 0 THEN << >>
    ELSE (IF contributions[1].grantId = grantId /\ contributions[1].round = round.address
          THEN <<contributions[1]>> ELSE << >>)
         \o RoundContributions(Tail(contributions), grantId, round)

RECURSIVE ContributionTotal(_)
ContributionTotal(contributions) ==
    IF Len(contributions) = 0 THEN 0
    ELSE contributions[1].amount + ContributionTotal(Tail(contributions))

\* the callback of rounds.map: the summary of one round, or a TypeError
RoundDetails(grantId, round, roundsMetadata, grantRoundsCLRData, contributions) ==
    LET p == getPredictionsForGrantInRound(grantId, Lookup(grantRoundsCLRData, round.address))
        predictions == p.value
        roundContributions == RoundContributions(contributions, grantId, round)
        metadata == Lookup(roundsMetadata, round.metaPtr)
        Field(i, diff) ==
            IF predictions = Undefined THEN Undefined
            ELSE formatNumber(IF diff THEN predictions.predictions[i].predictionDiff
                              ELSE predictions.predictions[i].predictedGrantMatch)
    IN IF p.threw \/ metadata = Undefined THEN [threw |-> TRUE]
       ELSE [threw |-> FALSE,
             grantId |-> grantId, address |-> round.address, metaPtr |-> round.metaPtr,
             name |-> metadata.name, contributions |-> roundContributions,
             balance |-> formatNumber(ContributionTotal(roundContributions)),
             matching |-> Field(1, FALSE), prediction1 |-> Field(2, TRUE),
             prediction10 |-> Field(3, TRUE), prediction100 |-> Field(4, TRUE)]

getGrantsGrantRoundDetails(grantId, rounds, roundsMetadata, grantRoundsCLRData, contributions) ==
    LET each == [i \in 1..Len(rounds) |->
                   RoundDetails(grantId, rounds[i], roundsMetadata, grantRoundsCLRData,
                                contributions)]
    IN IF \E i \in 1..Len(rounds) : each[i].threw THEN [threw |-> TRUE, value |-> << >>]
       ELSE [threw |-> FALSE, value |-> each]

\* the arguments tried
RoundLists ==
    LET RoundA == [address |-> "roundA", metaPtr |-> "ptrA"]
        RoundB == [address |-> "roundB", metaPtr |-> "ptrB"]
    IN {<< >>, <<RoundA>>, <<RoundB>>, <<RoundA, RoundB>>, <<RoundB, RoundA>>}
MetadataSet ==
    UNION {[ptrs -> [name : {"name"}, grants : SUBSET Grants]] : ptrs \in SUBSET {"ptrA", "ptrB"}}
\* predictionPoints of the clr.predict call whose results are read here
PredictionPoints == <<0, 1, 10, 100, 1000, 10000>>
PredictionOf(g) ==
    [grantId |-> g,
     predictions |-> [i \in 1..Len(PredictionPoints) |->
                        [predictionPoint |-> PredictionPoints[i],
                         predictedGrantMatch |-> 10 * g + i - 1,
                         predictionDiff |-> i - 1]]]
CLRDataSet ==
    LET RoundDataSet ==
           {[set |-> FALSE, predictions |-> << >>]}
           \cup {[set |-> TRUE, predictions |-> [g \in gs |-> PredictionOf(g)]] :
                    gs \in SUBSET Grants}
    IN UNION {[addrs -> RoundDataSet] : addrs \in SUBSET {"roundA", "roundB"}}
ContributionSets ==
    {<< >>,
     <<[grantId |-> 1, round |-> "roundA", amount |-> 3],
       [grantId |-> 2, round |-> "roundA", amount |-> 4],
       [grantId |-> 1, round |-> "roundB", amount |-> 5]>>}

Details(grantId, rounds, roundsMetadata, grantRoundsCLRData, contributions) ==
    /\ details' = [kind |-> "called", grantId |-> grantId, rounds |-> rounds,
                   roundsMetadata |-> roundsMetadata,
                   grantRoundsCLRData |-> grantRoundsCLRData,
                   contributions |-> contributions,
                   out |-> getGrantsGrantRoundDetails(grantId, rounds, roundsMetadata,
                                                      grantRoundsCLRData, contributions)]
    /\ UNCHANGED <<target, chain, now, roundContract, inputs, cache, calls, lastStatus, predicted>>
    /\ UNCHANGED <<cartVars, cartStatus, convVars, fixVars, runVars>>

InitDetails == IdleRounds /\ IdleCart /\ IdleConv /\ IdleFix /\ IdleRun

\* one call a behaviour
NextDetails ==
    /\ details = None
    /\ \E g \in Grants, rs \in RoundLists, md \in MetadataSet, clr \in CLRDataSet,
          cs \in ContributionSets : Details(g, rs, md, clr, cs)

SpecDetails == InitDetails /\ [][NextDetails]_vars

\* ------------------------------------------------------------------------
\* The prediction run of getGrantRoundGrantData as a pure function
\* ------------------------------------------------------------------------
\* clr.predict comes from the package @dgrants/dcurve; it is modelled from the CLR
\* Predictor of the specification.  SpecRounds keeps a prediction by its arguments
\* (Predict); here it is computed.
MaxDonors == 2         \* contributions handed to a prediction run

\* a - b of JavaScript numbers with a >= b
NumSub(a, b) ==
    IF a.k # "fin" \/ b.k # "fin" THEN NaN
    ELSE Fin(a.n * b.d - b.n * a.d, a.d * b.d)

\* the square root in whole units (rounded down), exact on the squares
RECURSIVE SqrtFrom(_, _)
SqrtFrom(n, r) == IF (r + 1) * (r + 1) > n THEN r ELSE SqrtFrom(n, r + 1)
Sqrt(n) == SqrtFrom(n, 0)

\* the sum of sqrt(amount * trust) and the sum of amount * trust over the contributions
\* to a grant
RECURSIVE SumRoots(_, _, _)
SumRoots(contributions, grantId, trust) ==
    IF Len(contributions) = 0 THEN 0
    ELSE (IF contributions[1].grantId = grantId
          THEN Sqrt(contributions[1].amount * trust) ELSE 0)
         + SumRoots(Tail(contributions), grantId, trust)

RECURSIVE SumWeighted(_, _, _)
SumWeighted(contributions, grantId, trust) ==
    IF Len(contributions) = 0 THEN 0
    ELSE (IF contributions[1].grantId = grantId THEN contributions[1].amount * trust ELSE 0)
         + SumWeighted(Tail(contributions), grantId, trust)

\* the matching weight of a grant whose contributions are joined by a synthetic one of
\* amount `point` and trust 1: (sum of roots)^2 - sum, never negative
Weight(grantId, contributions, trust, point) ==
    LET roots == SumRoots(contributions, grantId, trust) + Sqrt(point)
        w == roots * roots - (SumWeighted(contributions, grantId, trust) + point)
    IN IF w < 0 THEN 0 ELSE w

RECURSIVE SumWeights(_, _, _)
SumWeights(grants, contributions, trust) ==
    IF grants = {} THEN 0
    ELSE LET g == CHOOSE g \in grants : TRUE IN
         Weight(g, contributions, trust, 0) + SumWeights(grants \ {g}, contributions, trust)

\* totalPot * grantWeight / (sum of the weights of all grants of the round); `degenerate`
\* is what the predictor answers when that sum is zero
PredictedMatch(grantId, contributions, trust, totalPot, point, degenerate) ==
    LET w == Weight(grantId, contributions, trust, point)
        others == {contributions[i].grantId : i \in 1..Len(contributions)} \ {grantId}
        total == w + SumWeights(others, contributions, trust)
    IN IF total = 0 THEN degenerate ELSE Fin(totalPot * w, total)

\* clr.predict({grantId, predictionPoints, trustBonusScores, grantRoundContributions})
predict(grantId, predictionPoints, trust, totalPot, contributions, degenerate) ==
    LET at0 == PredictedMatch(grantId, contributions, trust, totalPot, 0, degenerate)
        At(point) == PredictedMatch(grantId, contributions, trust, totalPot, point, degenerate)
    IN [grantId |-> grantId,
        predictions |->
           [i \in 1..Len(predictionPoints) |->
              [predictionPoint |-> predictionPoints[i],
               predictedGrantMatch |-> At(predictionPoints[i]),
               predictionDiff |-> NumSub(At(predictionPoints[i]), at0)]]]

\* the grants that have a contribution among ls_grantDonations
Contributed(grantIds, ls_grantDonations) ==
    {g \in 1..grantIds : \E i \in 1..Len(ls_grantDonations) : ls_grantDonations[i].grantId = g}

\* mutant: only the grants that have a contribution in the round are predicted
PredictionRunContributed(grantIds, ls_grantDonations, trustBonus, funds, degenerate) ==
    [g \in Contributed(grantIds, ls_grantDonations) |->
        predict(g, PredictionPoints, trustBonus, funds, ls_grantDonations, degenerate)]

\* Promise.all(grantIds.map((grantId) => clr.predict(...))).reduce(...): the record
\* grantId -> GrantPrediction
PredictionRun(grantIds, ls_grantDonations, trustBonus, funds, degenerate) ==
    [g \in 1..grantIds |->
        predict(g, PredictionPoints, trustBonus, funds, ls_grantDonations, degenerate)]

\* the arguments tried
Pots == {0, 100}
DonorLists ==
    UNION {[1..n -> [grantId : Grants, amount : {1, 4}, inRound : BOOLEAN]] : n \in 0..MaxDonors}

PredictAll(grantIds, contributions, trustBonus, funds, degenerate) ==
    /\ predicted' = [kind |-> "called", grantIds |-> grantIds,
                     contributions |-> contributions, trustBonus |-> trustBonus,
                     funds |-> funds,
                     out |-> PredictionRun(grantIds, InRound(contributions), trustBonus,
                                           funds, degenerate)]
    /\ UNCHANGED <<target, chain, now, roundContract, inputs, cache, calls, lastStatus, details>>
    /\ UNCHANGED <<cartVars, cartStatus, convVars, fixVars, runVars>>

InitPredict == IdleRounds /\ IdleCart /\ IdleConv /\ IdleFix /\ IdleRun

\* one run a behaviour
NextPredict ==
    /\ predicted = None
    /\ \E n \in Grants, cs \in DonorLists, s \in TrustScores, f \in Pots,
          degenerate \in {NaN, Zero} : PredictAll(n, cs, s, f, degenerate)

SpecPredict == InitPredict /\ [][NextPredict]_vars

\* ------------------------------------------------------------------------
\* Properties
\* ------------------------------------------------------------------------
TokensOf(ds) == {ds[i].token : i \in 1..Len(ds)}
GroupOf(ds, t) == {i \in 1..Len(ds) : ds[i].token = t}
FirstOf(ds, t) == CHOOSE i \in GroupOf(ds, t) : \A j \in GroupOf(ds, t) : i <= j

RECURSIVE SumOver(_, _)
SumOver(ds, S) ==
    IF S = {} THEN 0
    ELSE LET i == CHOOSE i \in S : TRUE IN ds[i].ratio + SumOver(ds, S \ {i})

GroupSum(ds, t) == SumOver(ds, GroupOf(ds, t))

Returned(r) == r.kind = "called" /\ ~r.threw

\* C1: whenever fixDonationRoundingErrors returns, the ratios of every token of the
\* returned list sum to exactly WAD.
C1_RatiosSumToWad ==
    Returned(fixOut) =>
        \A t \in TokensOf(fixOut.donations) : GroupSum(fixOut.donations, t) = WAD

\* a returned call on a group of several donations that fell short of WAD
C1_Witness ==
    /\ Returned(fixOut)
    /\ \E t \in TokensOf(fixIn) :
          /\ Cardinality(GroupOf(fixIn, t)) >= 2
          /\ GroupSum(fixIn, t) > 0
          /\ GroupSum(fixIn, t) < WAD

\* C2: when the input ratios of some token sum to more than WAD, the call throws and
\* returns no list.
C2_ThrowsAboveWad ==
    (fixOut.kind = "called" /\ \E t \in TokensOf(fixIn) : GroupSum(fixIn, t) > WAD)
        => fixOut.threw

\* the call threw although the group of the first donation was within WAD
C2_Witness ==
    /\ fixOut.kind = "called"
    /\ fixOut.threw
    /\ Len(fixIn) >= 2
    /\ GroupSum(fixIn, fixIn[1].token) < WAD
    /\ \E t \in TokensOf(fixIn) : GroupSum(fixIn, t) > WAD

\* C3: the whole shortfall of a token goes to the first donation with that token; every
\* other ratio, and the grantId, token, rounds and position of every donation, stay.
C3_ShortfallToFirst ==
    Returned(fixOut) =>
        /\ Len(fixOut.donations) = Len(fixIn)
        /\ \A i \in 1..Len(fixIn) :
              /\ fixOut.donations[i].grantId = fixIn[i].grantId
              /\ fixOut.donations[i].token = fixIn[i].token
              /\ fixOut.donations[i].rounds = fixIn[i].rounds
              /\ fixOut.donations[i].ratio =
                    IF i = FirstOf(fixIn, fixIn[i].token)
                    THEN fixIn[i].ratio + (WAD - GroupSum(fixIn, fixIn[i].token))
                    ELSE fixIn[i].ratio

\* a returned call in which a group that does not start the list, of several
\* donations, fell short
C3_Witness ==
    /\ Returned(fixOut)
    /\ \E t \in TokensOf(fixIn) :
          /\ FirstOf(fixIn, t) > 1
          /\ Cardinality(GroupOf(fixIn, t)) >= 2
          /\ GroupSum(fixIn, t) < WAD

\* C4: applying fixDonationRoundingErrors to its own output returns, with the ratios
\* of the first application.
C4_Idempotent ==
    fixTwice.kind = "called" =>
        /\ ~fixTwice.threw
        /\ Len(fixTwice.donations) = Len(fixOut.donations)
        /\ \A i \in 1..Len(fixOut.donations) :
              fixTwice.donations[i].ratio = fixOut.donations[i].ratio

\* the second application ran on a list that the first one had changed
C4_Witness ==
    /\ fixTwice.kind = "called"
    /\ fixOut.donations # fixIn
    /\ Len(fixIn) >= 2

\* the step in which getCartDonationInputs builds the donations and returns
BuiltNow ==
    /\ pc \in {"idle", "done", "failed", "quoting"}
    /\ pc' \in {"balance", "allowance", "approve", "donate"}

\* C5: when getCartDonationInputs returns, a cart item with a positive amount that is
\* the only one with its token has a donation of ratio exactly WAD.
C5_SingleItemGetsWad ==
    [][BuiltNow =>
        /\ Len(donations') = Len(cart)
        /\ \A i \in 1..Len(cart) :
              (/\ cart[i].contributionAmount > 0
               /\ \A j \in 1..Len(cart) :
                     j # i => cart[j].contributionToken.address # cart[i].contributionToken.address)
              => /\ donations'[i].grantId = cart[i].grantId
                 /\ donations'[i].ratio = WAD]_vars

\* donations were built for a cart in which a token has one item, whose amount is
\* below the swap input computed before the cart was edited
C5_Witness ==
    /\ pc = "balance"
    /\ Len(cart) = 2 /\ Len(donations) = 2
    /\ \E i \in 1..2 :
          /\ cart[i].grantId = donations[i].grantId
          /\ DonationToken(cart[i]) = donations[i].token
          /\ Cardinality(GroupOf(donations, donations[i].token)) = 1
          /\ cart[i].contributionAmount > 0
          /\ FindSwap(swaps, donations[i].token) # 0
          /\ swaps[FindSwap(swaps, donations[i].token)].amountIn
                > parseUnits(cart[i].contributionAmount, TOKEN_DECIMALS)
          /\ donations[i].ratio = WAD

InputErrors == {"Ratios sum to greater than 100%", "Could not find matching swap for donation"}

\* C6: every donate transaction carries donations whose ratios sum to WAD per token;
\* a run that failed building its inputs sent no transaction, rejected with that error
\* and left cartStatus empty.
C6_NoMalformedDonate ==
    /\ \A n \in 1..Len(sent) :
          sent[n].kind = "donate" =>
              \A t \in TokensOf(sent[n].donations) : GroupSum(sent[n].donations, t) = WAD
    /\ (pc = "failed" /\ error \in InputErrors) => (sent = << >> /\ cartStatus = "")

\* a run rejected because the ratios built from the edited cart exceeded WAD
C6_Witness ==
    /\ pc = "failed"
    /\ error = "Ratios sum to greater than 100%"
    /\ sent = << >>
    /\ cartStatus = ""

InSync ==
    /\ localStorage.kind = "array"
    /\ Len(lsCart) = Len(cart)
    /\ Len(localStorage.items) = Len(cart)
    /\ \A i \in 1..Len(cart) :
          /\ lsCart[i].grantId = cart[i].grantId
          /\ localStorage.items[i].grantId = cart[i].grantId
          /\ lsCart[i].contributionTokenAddress = cart[i].contributionToken.address
          /\ localStorage.items[i].contributionTokenAddress = cart[i].contributionToken.address
          /\ lsCart[i].contributionAmount = cart[i].contributionAmount
          /\ localStorage.items[i].contributionAmount = cart[i].contributionAmount

\* C7: after every cart method, returned or thrown, cart, lsCart and the stored array
\* hold the same items.
C7_CartInSync == Initialized => InSync

\* content of localStorage that cannot become a cart
Unusable(store) ==
    \/ store.kind \in {"absent", "unparseable", "nonArray"}
    \/ /\ store.kind = "array"
       /\ \E i \in 1..Len(store.items) :
             store.items[i].contributionTokenAddress \notin SUPPORTED_TOKENS

\* C8: initializeCart never throws, and for unusable content it leaves cart and lsCart
\* empty and the stored entry equal to the empty array.
C8_InitializeNeverThrows ==
    [][initializeCart =>
        /\ ~lastOp'.threw
        /\ Unusable(localStorage) =>
              /\ cart' = << >>
              /\ lsCart' = << >>
              /\ localStorage' = StoredArray(<< >>)]_vars

\* initializeCart ran on content that is no JSON
C8_Witness ==
    /\ lastOp.kind = "op"
    /\ lastOp.name = "initializeCart"
    /\ lastOp.raw = "unparseable"
    /\ ~lastOp.threw
    /\ cart = << >>
    /\ localStorage = StoredArray(<< >>)

\* C9 as stated: a conversion for a token without a quote ends in an error.
C9_MissingQuoteIsError ==
    (conv.kind = "called" /\ conv.quote = Undefined) => conv.out.threw

\* C9 amended: a conversion for a token without a quote ends in no error; the rate 0
\* stands in, giving 0 in direction 1 and amount * (1 / 0) in the other direction.
C9_MissingQuoteDefaultsToZero ==
    (conv.kind = "called" /\ conv.quote = Undefined) =>
        /\ ~conv.out.threw
        /\ conv.out.value = IF conv.direction = 1 THEN Zero
                            ELSE IF conv.amount.n = 0 THEN NaN
                            ELSE Infinity

\* a positive amount converted from the reference unit for a token without a quote
C9_Witness ==
    /\ conv.kind = "called"
    /\ conv.quote = Undefined
    /\ conv.direction # 1
    /\ conv.amount.n > 0
    /\ conv.out.value = Infinity

\* C10: with a nonzero quote q the result is amount * q in direction 1 and amount / q
\* otherwise (compared by cross-multiplication), and a call leaves the table as it was.
C10_ResultValue ==
    (conv.kind = "called" /\ conv.quote # Undefined /\ conv.quote.n # 0) =>
        /\ ~conv.out.threw
        /\ conv.out.value.k = "fin"
        /\ IF conv.direction = 1
           THEN conv.out.value.n * (conv.amount.d * conv.quote.d)
                    = (conv.amount.n * conv.quote.n) * conv.out.value.d
           ELSE conv.out.value.n * (conv.amount.d * conv.quote.n)
                    = (conv.amount.n * conv.quote.d) * conv.out.value.d

C10_ConvertMultipliesOrDivides ==
    /\ []C10_ResultValue
    /\ [][conv' # conv => quotes' = quotes]_vars

\* a positive amount converted from the reference unit with a quote other than 0 and 1
C10_Witness ==
    /\ conv.kind = "called"
    /\ conv.quote # Undefined
    /\ conv.quote.n # 0
    /\ conv.quote # Fin(1, 1)
    /\ conv.direction # 1
    /\ conv.amount.n > 0


\* ---- grant rounds ----
\* the invocation in slot p reaches the end of its callback in this step
Computes(p) == calls[p].pc # "settle" /\ calls'[p].pc = "settle"

StatusRank(s) ==
    IF s = "Upcoming" THEN 1 ELSE IF s = "Active" THEN 2 ELSE IF s = "Completed" THEN 3 ELSE 0

\* C11: the status getGrantRound returns is 'Active' exactly when startTime <= now <
\* endTime, 'Upcoming' exactly when now < startTime and 'Completed' otherwise, for every
\* now, startTime and endTime.
C11_StatusByTime ==
    [][\A p \in Procs :
         (target = "getGrantRound" /\ Computes(p)) =>
            LET d == calls'[p].data IN
            /\ d.status \in {"Active", "Upcoming", "Completed"}
            /\ (d.status = "Active") <=> (d.startTime <= now /\ now < d.endTime)
            /\ (d.status = "Upcoming") <=> (now < d.startTime)
            /\ (d.status = "Completed") <=> (now >= d.endTime /\ now >= d.startTime)]_vars

\* a read at the very second the round starts has returned Active
C11_Witness ==
    /\ target = "getGrantRound"
    /\ \E p \in Procs :
          /\ calls[p].pc = "settle"
          /\ calls[p].data.status = "Active"
          /\ now = calls[p].data.startTime

\* C12: with the round's times fixed and a clock that never goes backward, the statuses
\* of successive getGrantRound reads only move forward: Upcoming, Active, Completed.
C12_StatusMovesForward ==
    [][StatusRank(lastStatus') >= StatusRank(lastStatus)]_vars

\* an entry saved while the round was Active is still stored when a later read has
\* returned Completed
C12_Witness ==
    /\ target = "getGrantRound"
    /\ lastStatus = "Completed"
    /\ cache # Absent
    /\ cache.data.status = "Active"

\* C13: round status is not persisted: the entry getGrantRound saves carries no status,
\* and every read, also one served from an up-to-date entry, derives the status from
\* the current time, so that a round past its end is reported Completed.
C13_StatusNotPersisted ==
    [][/\ (target = "getGrantRound" /\ cache' # Absent) => "status" \notin DOMAIN cache'.data
       /\ \A p \in Procs :
            (target = "getGrantRound" /\ Computes(p)
                /\ now >= calls'[p].data.endTime /\ now >= calls'[p].data.startTime)
            => calls'[p].data.status = "Completed"]_vars


\* ---- getGrantsGrantRoundDetails ----
\* the rounds of the call whose metadata lists the grant
MemberRounds(d) ==
    {i \in 1..Len(d.rounds) :
        /\ Lookup(d.roundsMetadata, d.rounds[i].metaPtr) # Undefined
        /\ d.grantId \in d.roundsMetadata[d.rounds[i].metaPtr].grants}

\* the rounds of the call for which no prediction of the grant is at hand
Unpredicted(d) ==
    {i \in 1..Len(d.rounds) :
        LET roundData == Lookup(d.grantRoundsCLRData, d.rounds[i].address) IN
        \/ roundData = Undefined
        \/ ~roundData.set
        \/ d.grantId \notin DOMAIN roundData.predictions}

\* C14: getGrantsGrantRoundDetails emits a summary only for the rounds whose metadata
\* grant list contains grantId; a round the grant does not belong to produces no entry
\* and no error.
C14_OnlyMemberRounds ==
    (details # None /\ \A i \in 1..Len(details.rounds) :
                          /\ Lookup(details.roundsMetadata, details.rounds[i].metaPtr) # Undefined
                          /\ Lookup(details.grantRoundsCLRData, details.rounds[i].address) # Undefined)
    => /\ ~details.out.threw
       /\ Len(details.out.value) = Cardinality(MemberRounds(details))
       /\ \A j \in 1..Len(details.out.value) :
             \E i \in MemberRounds(details) : details.out.value[j].address = details.rounds[i].address

\* C15: when no prediction is at hand for the grant in a round (no CLR entry for the
\* round, or an entry without a prediction of the grant), getGrantsGrantRoundDetails
\* does not throw and returns that round's summary with matching, prediction1,
\* prediction10 and prediction100 undefined.
C15_UnpredictedUndefined ==
    (details # None /\ \A i \in 1..Len(details.rounds) :
                          Lookup(details.roundsMetadata, details.rounds[i].metaPtr) # Undefined)
    => \A i \in Unpredicted(details) :
          /\ ~details.out.threw
          /\ details.out.value[i].matching = Undefined
          /\ details.out.value[i].prediction1 = Undefined
          /\ details.out.value[i].prediction10 = Undefined
          /\ details.out.value[i].prediction100 = Undefined


\* ---- the cache of the three getters ----
InFlight(p) == calls[p].pc \notin {"idle", "failed", "abandoned"}

\* C16: in getGrantRoundGrantData, whenever nothing is cached or the cached block height
\* is lower than the current one, the predictions of every grant in grantIds are
\* recomputed from the current contributions, trust scores and matching pool.
C16_StaleRecomputes ==
    \A p \in Procs :
       (/\ target = "getGrantRoundGrantData"
        /\ calls[p].pc = "settle"
        /\ (\/ calls[p].localStorageData = Absent
            \/ calls[p].localStorageData.blockNumber < calls[p].blockNumber))
       => \A g \in 1..calls[p].args.grantIds :
             /\ g \in DOMAIN calls[p].data.predictions
             /\ calls[p].data.predictions[g] =
                   Predict(g, InRound(calls[p].args.contributions),
                           calls[p].args.trustBonus, calls[p].args.funds)

\* the invocation found an entry that is not older than the block asked for, and was
\* not told to refresh
CacheHit(c) ==
    /\ c.localStorageData # Absent
    /\ c.localStorageData.blockNumber >= c.blockNumber
    /\ ~c.forceRefresh

ReturnsCached(c) ==
    LET stored == c.localStorageData.data IN
    IF c.fn = "getAllGrantRounds" THEN c.data.roundAddresses = stored.roundAddresses
    ELSE IF c.fn = "getGrantRound"
    THEN /\ c.data.startTime = stored.startTime /\ c.data.endTime = stored.endTime
         /\ c.data.metaPtr = stored.metaPtr /\ c.data.funds = stored.funds
         /\ c.data.matchingToken = stored.matchingToken /\ c.data.address = stored.address
    ELSE /\ c.data.contributions = stored.contributions
         /\ c.data.predictions = stored.predictions

\* C17: with a cached entry whose block height is not lower than the requested
\* blockNumber and forceRefresh false, the three getters issue no event query and no
\* predict call and return the cached roundAddresses, round fields (status apart),
\* contributions and predictions unchanged.
C17_CacheHitFrame ==
    \A p \in Procs :
       (InFlight(p) /\ CacheHit(calls[p]))
       => /\ calls[p].pc = "settle"
          /\ calls[p].queries = 0
          /\ calls[p].predicts = 0
          /\ ReturnsCached(calls[p])

\* getAllGrantRounds was asked for the very block of a stored, non-empty list
C17_Witness ==
    /\ target = "getAllGrantRounds"
    /\ \E p \in Procs :
          /\ calls[p].pc = "settle"
          /\ CacheHit(calls[p])
          /\ calls[p].localStorageData.blockNumber = calls[p].blockNumber
          /\ Len(calls[p].data.roundAddresses) > 0

\* C18: in the three getters save is called, and the entry written, only after every
\* awaited query or prediction of the invocation has answered; when one fails or the
\* invocation is abandoned at an await, the stored entry is left as it was.
C18_SaveAfterAwaits ==
    /\ [](\A p \in Procs : (calls # << >> /\ Awaiting(p)) => ~calls[p].shouldSave)
    /\ [][\A p \in Procs :
            (Awaiting(p) /\ calls'[p].pc \in {"failed", "abandoned"}) => cache' = cache]_vars
    /\ [][cache' # cache =>
            \E p \in Procs : /\ calls[p].pc = "settle" /\ calls[p].shouldSave
                             /\ calls'[p].pc = "idle"
                             /\ cache' = Entry(calls[p].blockNumber, calls[p].data)]_vars

\* a query of an invocation has failed while an entry saved earlier is stored
C18_Witness ==
    /\ calls # << >>
    /\ \E p \in Procs : calls[p].pc = "failed"
    /\ cache # Absent

\* C19: for every cache key, over any sequence and interleaving of invocations, the
\* block height stored with the entry never decreases.
C19_BlockHeightMonotonic ==
    [][(cache # Absent /\ cache' # Absent) => cache'.blockNumber >= cache.blockNumber]_vars


\* ---- cart operations ----
\* the item addToCart appends
DefaultItem(g) ==
    [grantId |-> g, contributionAmount |-> DEFAULT_CONTRIBUTION_AMOUNT,
     contributionToken |-> [address |-> DAI_ADDRESS]]

\* C20: addToCart(g) changes nothing when g is undefined or already in the cart;
\* otherwise it appends exactly one item with grantId g, the DAI token and the default
\* amount 5 at the end of the cart, leaving the existing items and their order unchanged.
C20_AddToCart ==
    [][\A g \in Grants \cup {UndefinedId} :
         addToCart(g) =>
            IF g = UndefinedId \/ \E i \in 1..Len(cart) : cart[i].grantId = g
            THEN UNCHANGED <<cart, lsCart, localStorage>>
            ELSE cart' = Append(cart, DefaultItem(g))]_vars


\* C21: removeFromCart(g) removes every item with grantId g, after which isInCart(g) is
\* false, and keeps every other item in its original relative order with its token and
\* amount unchanged; when g is undefined or not in the cart, the cart is unchanged.
C21_RemoveFromCart ==
    [][\A g \in Grants \cup {UndefinedId} :
         removeFromCart(g) =>
            LET kept == {i \in 1..Len(cart) : cart[i].grantId # g}
                \* position in the new cart of the kept item at position i of the old one
                Pos(i) == Cardinality({j \in kept : j <= i})
            IN /\ ~lastOp'.threw
               /\ Len(cart') = Cardinality(kept)
               /\ \A i \in kept : cart'[Pos(i)] = cart[i]
               /\ ~isInCart(g)'
               /\ (g = UndefinedId \/ kept = 1..Len(cart)) => cart' = cart]_vars

\* a grant that held the first two items of a cart of three was removed, and the third
\* item stayed
C21_Witness ==
    /\ lastOp.kind = "op"
    /\ lastOp.name = "removeFromCart"
    /\ "removed" \in DOMAIN lastOp
    /\ lastOp.removed = 2
    /\ Len(cart) = 1
    /\ ~isInCart(1)
    /\ isInCart(2)


\* the cart with the field of item `index` set to data
Updated(items, index, field, data) ==
    IF field = "token" THEN [items EXCEPT ![index].contributionToken = [address |-> data]]
    ELSE [items EXCEPT ![index].contributionAmount = data]

\* what the claim allows an updateCart(g, data) step to do to the cart
UpdatesOnly(g, field, data) ==
    updateCart(g, field, data) =>
        IF FindIndex(cart, g) = 0 THEN cart' = cart
        ELSE cart' = Updated(cart, FindIndex(cart, g), field, data)

\* C22: updateCart(g, data) changes only the item with grantId g: its contribution token
\* when data is a token address (here: of a supported token), otherwise its contribution
\* amount; that item's other field, every other item, and the cart's length and order
\* are unchanged, and when no item has grantId g the cart is unchanged.
C22_UpdateCart ==
    [][\A g \in Grants :
         /\ \A t \in SUPPORTED_TOKENS : UpdatesOnly(g, "token", t)
         /\ \A a \in Amounts : UpdatesOnly(g, "amount", a)]_vars


NoDuplicates(items) ==
    \A i \in 1..Len(items), j \in 1..Len(items) : i # j => items[i].grantId # items[j].grantId

\* C25: starting from an empty cart, after any sequence of addToCart, removeFromCart,
\* updateCart, clearCart and clearCartState calls, no grantId appears in more than one
\* cart item.  The empty cart has no grantId twice, and each of the five methods (every
\* method but initializeCart, which takes what the browser stored) keeps that.
C25_NoDuplicateGrants ==
    [][(lastOp'.name # "initializeCart" /\ NoDuplicates(cart)) => NoDuplicates(cart')]_vars

\* addToCart has appended a second grant, in a behaviour in which a cart method threw
C25_Witness ==
    /\ lastOp.kind = "op"
    /\ lastOp.name = "addToCart"
    /\ ~lastOp.threw
    /\ Len(cart) = 2
    /\ NoDuplicates(cart)
    /\ throws > 0


\* ---- the checkout run ----
Count(log, kind) == Cardinality({n \in 1..Len(log) : log[n].kind = kind})

\* this step sends a transaction of the kind
Sends(kind) == Len(sent') = Len(sent) + 1 /\ sent'[Len(sent')].kind = kind

\* the balance of the input token of every swap has been found sufficient, in order,
\* before anything else was answered
BalancesChecked ==
    /\ Len(answers) >= Len(swaps)
    /\ \A i \in 1..Len(swaps) : answers[i] = Answer("balance", getInputToken(swaps[i]), 0)

Running == pc \in {"quoting", "balance", "allowance", "approve", "mining", "donate"}

\* C26: in every checkout run the balance checks of all swaps complete before any
\* approval is sent; approvals are sent one at a time, each mined before the next is
\* sent; donate is sent exactly once, only after every required approval has been
\* mined; and after a failure at any step no later step is executed.
C26_CheckoutOrder ==
    /\ [][Sends("approve") =>
            /\ BalancesChecked
            /\ Count(sent, "approve") = lastApprovalIndex
            /\ Count(sent, "donate") = 0]_vars
    /\ [][Sends("donate") =>
            /\ BalancesChecked
            /\ Count(sent, "donate") = 0
            /\ Count(sent, "approve") = Len(tokensToApprove)
            /\ lastApprovalIndex = Len(tokensToApprove)
            /\ \A n \in 1..Len(tokensToApprove) : sent[n].token = tokensToApprove[n]]_vars
    /\ [](pc = "done" => Count(sent, "donate") = 1 /\ sent[Len(sent)].kind = "donate")
    /\ [][(Running /\ pc' = "failed") => UNCHANGED <<sent, answers, lastApprovalIndex>>]_vars
    /\ [][(pc = "failed" /\ pc' = "failed") => UNCHANGED <<sent, answers, lastApprovalIndex>>]_vars
    /\ [][(pc = "failed" /\ pc' # "failed") =>
            sent' = << >> /\ answers' = << >> /\ lastApprovalIndex' = 0]_vars

\* a run with two swaps sent two approvals, each mined, and then donate
C26_Witness ==
    /\ pc = "done"
    /\ Len(swaps) = 2
    /\ Len(sent) = 3
    /\ lastApprovalIndex = 2
    /\ sent[1].kind = "approve" /\ sent[2].kind = "approve" /\ sent[3].kind = "donate"
    /\ sent[1].token # sent[2].token


\* this step of the run writes cartStatus: an iteration of the approval loop starts, or
\* the loop is over
StatusWritten == pc' \in {"approve", "donate"} /\ pc \notin {"approve", "donate"}

\* the approvals a run needs: the allowances read that are below the swap's amountIn
ApprovalsNeeded(log, sw) ==
    Cardinality({n \in 1..Len(log) :
                    /\ log[n].kind = "allowance"
                    /\ \E i \in 1..Len(sw) : /\ getInputToken(sw[i]) = log[n].token
                                              /\ log[n].allowance < sw[i].amountIn})

\* C27: during checkout with N = approvals needed + 1, cartStatus takes the values
\* 'k of N pending' with k going from 1 up to N, never decreasing and with k = N when
\* donate is sent; if checkout fails at any step cartStatus is reset to '' and the error
\* is rethrown; after a successful checkout cartStatus is cleared only by clearCartState.
\* The values are those the run writes: the first is '1 of N', each approval mined
\* raises k by one, and the one written before manager.donate is called is 'N of N'.
C27_CartStatus ==
    /\ [][StatusWritten =>
            LET N == ApprovalsNeeded(answers', swaps') + 1
                k == lastApprovalIndex' + 1
            IN /\ cartStatus' = Pending(k, N)
               /\ 1 <= k /\ k <= N
               /\ k = IF pc = "mining" THEN lastApprovalIndex + 2 ELSE 1
               /\ (pc' = "donate") <=> (k = N)]_vars
    /\ [][pc' = "failed" => (cartStatus' = "" /\ error' # "")]_vars
    /\ [][(pc = "donate" /\ pc' = "done") => cartStatus' = cartStatus]_vars
    /\ [][(pc = "done" /\ pc' = "done" /\ cartStatus' # cartStatus) => clearCartState]_vars

\* a run that needed two approvals has sent donate and left '3 of 3 pending'
C27_Witness ==
    /\ pc = "done"
    /\ lastApprovalIndex = 2
    /\ cartStatus = "3 of 3 pending"


\* the tokens an approval is due for: input tokens of a swap other than ETH and WETH
\* whose allowance, as read by the run, is below the swap's amountIn
ApprovalDue(t) ==
    /\ t \notin {ETH_ADDRESS, WETH_ADDRESS}
    /\ \E i \in 1..Len(swaps) :
          /\ getInputToken(swaps[i]) = t
          /\ \E n \in 1..Len(answers) :
                /\ answers[n].kind = "allowance"
                /\ answers[n].token = t
                /\ answers[n].allowance < swaps[i].amountIn

ApprovalSent(t) == \E n \in 1..Len(sent) : sent[n].kind = "approve" /\ sent[n].token = t

\* C28: checkout sends an approval for a token if and only if that token is the input
\* token of a swap, is neither ETH nor WETH, and the allowance read for it is below the
\* swap's amountIn; the value sent with donate is the amountIn of the swap whose input
\* token is WETH, and 0 when there is no such swap.
C28_ApprovalsAndValue ==
    /\ \A t \in SUPPORTED_TOKENS \cup {WETH_ADDRESS} :
          /\ ApprovalSent(t) => ApprovalDue(t)
          /\ (pc \in {"donate", "done"} /\ ApprovalDue(t)) => ApprovalSent(t)
    /\ \A n \in 1..Len(sent) :
          sent[n].kind = "donate" =>
             IF \E i \in 1..Len(swaps) : getInputToken(swaps[i]) = WETH_ADDRESS
             THEN \E i \in 1..Len(swaps) : /\ getInputToken(swaps[i]) = WETH_ADDRESS
                                           /\ sent[n].value = swaps[i].amountIn
             ELSE sent[n].value = 0

\* a run on a cart of ETH and DAI read a DAI allowance equal to the swap input, sent no
\* approval, and sent donate with the ETH amount as its value
C28_Witness ==
    /\ pc = "done"
    /\ Len(swaps) = 2
    /\ \E i \in 1..2 : getInputToken(swaps[i]) = WETH_ADDRESS /\ swaps[i].amountIn > 0
    /\ \E n \in 1..Len(answers) :
          /\ answers[n].kind = "allowance"
          /\ answers[n].token = DAI_ADDRESS
          /\ \E i \in 1..2 : getInputToken(swaps[i]) = DAI_ADDRESS
                             /\ swaps[i].amountIn = answers[n].allowance
    /\ Len(sent) = 1
    /\ sent[1].value > 0

\* the donations of getCartDonationInputs before fixDonationRoundingErrors
NaiveDonations(items, sw) == [i \in 1..Len(items) |-> NaiveDonation(items[i], sw)]

\* C24: in every checkout the naive ratios of each token, floor(donationAmount * WAD /
\* amountIn) with amountIn the swap input computed from the cart summary, sum to at
\* most WAD when getCartDonationInputs builds them, and no run is rejected with
\* 'Ratios sum to greater than 100%'.
C24_NaiveRatiosWithinWad ==
    /\ (/\ pc = "quoting"
        /\ \A i \in 1..Len(cart) : ItemError(cart[i], swaps) = "")
       => \A t \in TokensOf(NaiveDonations(cart, swaps)) :
             GroupSum(NaiveDonations(cart, swaps), t) <= WAD
    /\ error # "Ratios sum to greater than 100%"

\* the sum of the amounts of the contributions at the indices S
RECURSIVE AmountOver(_, _)
AmountOver(cs, S) ==
    IF S = {} THEN 0
    ELSE LET i == CHOOSE i \in S : TRUE IN cs[i].amount + AmountOver(cs, S \ {i})

\* what clr.predict returned for a prediction point
AtPoint(prediction, point) ==
    LET i == CHOOSE i \in 1..Len(prediction.predictions) :
                  prediction.predictions[i].predictionPoint = point
    IN prediction.predictions[i]

\* C30: each summary of getGrantsGrantRoundDetails for a round in which the grant has
\* predictions reports as balance the sum of the amounts of the grant's contributions
\* made in that round, as matching the predicted match at prediction point 0, and the
\* prediction deltas at the prediction points 1, 10, 100 and 1000.
C30_SummaryFields ==
    (details # None /\ ~details.out.threw)
    => \A i \in 1..Len(details.rounds) :
          LET s == details.out.value[i]
              roundData == Lookup(details.grantRoundsCLRData, details.rounds[i].address)
              cs == details.contributions
          IN (roundData.set /\ details.grantId \in DOMAIN roundData.predictions)
             => /\ s.balance = formatNumber(AmountOver(cs,
                                   {n \in 1..Len(cs) :
                                       /\ cs[n].grantId = details.grantId
                                       /\ cs[n].round = details.rounds[i].address}))
                /\ s.matching = formatNumber(
                       AtPoint(roundData.predictions[details.grantId], 0).predictedGrantMatch)
                /\ \A point \in {1, 10, 100, 1000} :
                      LET field == "prediction" \o ToString(point) IN
                      /\ field \in DOMAIN s
                      /\ s[field] = formatNumber(
                             AtPoint(roundData.predictions[details.grantId], point).predictionDiff)

\* C30 without the delta at prediction point 1000
C30_ThreeDeltas ==
    (details # None /\ ~details.out.threw)
    => \A i \in 1..Len(details.rounds) :
          LET s == details.out.value[i]
              roundData == Lookup(details.grantRoundsCLRData, details.rounds[i].address)
              cs == details.contributions
          IN (roundData.set /\ details.grantId \in DOMAIN roundData.predictions)
             => /\ s.balance = formatNumber(AmountOver(cs,
                                   {n \in 1..Len(cs) :
                                       /\ cs[n].grantId = details.grantId
                                       /\ cs[n].round = details.rounds[i].address}))
                /\ s.matching = formatNumber(
                       AtPoint(roundData.predictions[details.grantId], 0).predictedGrantMatch)
                /\ \A point \in {1, 10, 100} :
                      LET field == "prediction" \o ToString(point) IN
                      /\ field \in DOMAIN s
                      /\ s[field] = formatNumber(
                             AtPoint(roundData.predictions[details.grantId], point).predictionDiff)

\* the grants of grantIds without a contribution in the round
Uncontributed(run) ==
    {g \in 1..run.grantIds : g \notin Contributed(run.grantIds, InRound(run.contributions))}

\* some grant of the round has a nonzero matching weight
WeightsNonzero(run) ==
    \E g \in Grants : Weight(g, InRound(run.contributions), run.trustBonus, 0) > 0

RoundsUpTo(blockNumber) == queryFilter(chain, "GrantRoundCreated", START_BLOCK, blockNumber)

\* what an invocation found stored is nothing, or the complete list of its block height
StoredComplete(c) ==
    \/ c.localStorageData = Absent
    \/ c.localStorageData.data.roundAddresses = RoundsUpTo(c.localStorageData.blockNumber)

IsPrefix(s, t) == Len(s) <= Len(t) /\ \A i \in 1..Len(s) : s[i] = t[i]

\* C29: a getAllGrantRounds call that finds nothing stored, or the complete list of a
\* block height not above the one it asks for, returns every GrantRoundCreated event of
\* the blocks START_BLOCK..blockNumber exactly once (none missed, the one of block
\* START_BLOCK included; none added twice, forceRefresh included), and what was stored
\* is a prefix of what it returns.  By induction this is the claim for every sequence of
\* calls with non-decreasing blockNumber.
C29_EveryRoundOnce ==
    \A p \in Procs :
       (/\ target = "getAllGrantRounds"
        /\ calls[p].pc = "settle"
        /\ StoredComplete(calls[p])
        /\ LsBlockNumber(calls[p].localStorageData, START_BLOCK) <= calls[p].blockNumber)
       => /\ calls[p].data.roundAddresses = RoundsUpTo(calls[p].blockNumber)
          /\ IsPrefix(LsRoundAddresses(calls[p].localStorageData), calls[p].data.roundAddresses)

\* C29 with the refreshes starting at block START_BLOCK + 1
C29_AfterStartBlock ==
    \A p \in Procs :
       (/\ target = "getAllGrantRounds"
        /\ calls[p].pc = "settle"
        /\ chain[START_BLOCK] # "GrantRoundCreated"
        /\ StoredComplete(calls[p])
        /\ LsBlockNumber(calls[p].localStorageData, START_BLOCK) <= calls[p].blockNumber)
       => /\ calls[p].data.roundAddresses = RoundsUpTo(calls[p].blockNumber)
          /\ IsPrefix(LsRoundAddresses(calls[p].localStorageData), calls[p].data.roundAddresses)

====
